---- MODULE Spec2Model ----
(***************************************************************************)
(* A model of the ChimeraX gamepad bundle: the GamepadManager (device      *)
(* registry, mode cell, per-frame dispatch loop), the Controller wrapper   *)
(* and the commands and tool operations that act on the manager.           *)
(*                                                                         *)
(* A handler is written as an operator on a record m that holds the        *)
(* manager's fields, the handles SDL has open and the trace of the calls   *)
(* the handler made; an action commits the record.  start(), stop() and    *)
(* the commands are one action each.  update() is a callback with two      *)
(* loops: one action per iteration (a polled event with its whole handler, *)
(* a controller with its whole processing), pc holding its position.  The  *)
(* host is single-threaded: nothing else runs until update() has returned. *)
(***************************************************************************)
EXTENDS Integers, Sequences, FiniteSets, TLC

\* ---------------------------------------------------------------- bounds
MaxDevices == 2
MaxHandles == 2
MaxObjects == 3
MaxCloseCalls == 4
MaxOps == 3
MaxApplies == 2
MaxSnapOps == 3

\* ------------------------------------------------------ program constants
VIEW == 1
MODEL == 2
SDL_CONTROLLER_BUTTON_A == 0
SDL_CONTROLLER_BUTTON_START == 6
AXIS_MAX == 32767
DEFAULT_DEAD_ZONE_PCT == 15
DEAD_ZONE_MAX_PCT == 50
DEFAULT_SENSITIVITY_PCT == 100
SENSITIVITY_MIN_PCT == 10
SENSITIVITY_MAX_PCT == 500
IDLE_EPS_DEN == 1000
ANGLE_SPEED == 2
PAN_SPEED == 20
ZOOM_SPEED == 15
TRANS_SPEED == 20
TRANS_Z_SPEED == 60
DEFAULT_PIXEL_SIZE == 1000

None == 0

Devices == 1..MaxDevices
Handles == 1..MaxHandles

\* SDL_JoystickInstanceID: the instance id of the device at a device index.
\* Instance ids and device indices are different number spaces.
SDL_JoystickInstanceID(d) == MaxDevices + d
InstanceIds == {SDL_JoystickInstanceID(d) : d \in Devices}

Buttons == {SDL_CONTROLLER_BUTTON_A, SDL_CONTROLLER_BUTTON_START}

\* GamepadConfig.button_to_name
button_to_name(button) ==
    CASE button = 0 -> "A"
      [] button = 1 -> "B"
      [] button = 6 -> "START"
      [] OTHER -> "BUTTON_n"

ButtonNames == {"A"}

\* Host commands a button can be bound to: two commands of this bundle, which
\* re-enter the manager, and one the host rejects (run() raises).
Commands == {"gamepad stop", "gamepad mode model", "bogus"}
NoCommand == ""

\* The events SDL_PollEvent delivers.
DeviceAdded(d) == [type |-> "SDL_CONTROLLERDEVICEADDED", which |-> d]
DeviceRemoved(i) == [type |-> "SDL_CONTROLLERDEVICEREMOVED", which |-> i]
ButtonDown(b) == [type |-> "SDL_CONTROLLERBUTTONDOWN", which |-> b]
Events ==
    {DeviceAdded(d) : d \in Devices}
        \cup {DeviceRemoved(i) : i \in InstanceIds}
        \cup {ButtonDown(b) : b \in Buttons}

\* One entry of the trace of an operation: a call it made or a step it took.
Entry(k, a) == [k |-> k, a |-> a, cmd |-> NoCommand]
CmdEntry(k, c) == [k |-> k, a |-> None, cmd |-> c]

VARIABLES
    running,          \* GamepadManager._running
    sdl_initialized,  \* GamepadManager._sdl_initialized
    controllers,      \* GamepadManager.controllers, in insertion order
    mode,             \* GamepadManager.mode
    open,             \* handles SDL_GameControllerOpen returned, not yet closed
    attrs,            \* sensitivity attributes present on the GamepadConfig object
    mappings,         \* GamepadConfig._config["button_mappings"]
    pc,               \* where the host's thread is: idle, in update()'s event
                      \* loop, in its analog loop, or done with an operation
    op,               \* the operation in progress or just done
    processed,        \* the controllers update()'s analog loop has processed
    failed_cmd,       \* a bound command failed during this update()
    trace,            \* the calls made by the last step
    exc,              \* the exception the operation raised to its caller
    objs,             \* Controller objects held outside a registry
    close_calls,      \* Controller.close() calls made on each of them
    closes,           \* SDL_GameControllerClose calls made for each of their handles
    cfg,              \* GamepadConfig._config of a store, numbers in hundredths
    cfg_attrs,        \* the other instance attributes set on that store
    disk,             \* the persisted document, config.json
    cfg_op,           \* the last operation on the store
    cfg_arg,          \* and its argument
    cfg_exc,          \* the exception it raised to its caller
    cfg_ops,          \* operations made on the store so far
    stick_cfg,        \* the dead zone and invert_y a Controller's config holds
    stick_raw,        \* the raw axis values the device reported to the last read
    stick_out,        \* what the last read returned
    stick_op,         \* the last read made
    trig_raw,         \* the raw trigger axes the device reported to the last read
    trig_out,         \* the trigger readings and the zoom scalar made of them
    trig_op,          \* the last trigger read made
    camera,           \* the view's camera: projection, field width, redraw flag
    pixel_size,       \* what view.pixel_size() returns, in thousandths, or None
    view_pose,        \* the rotations and translations the view has been given
    models,           \* the models of the scene: parent and position
    selection,        \* the selected models
    sens,             \* the sensitivity attributes set on the appliers' config
    scene_calls,      \* the calls the last apply() made on the scene
    apply_op,         \* the last operation on the appliers or their config
    apply_args,       \* the five scalars it was given
    apply_exc,        \* the exception it raised to its caller
    applies,          \* apply() calls made so far
    heap,             \* the button_mappings dict objects, by address
    live,             \* GamepadConfig._config of the live store: its scalars
                      \* and the address of its button_mappings dict
    snapshot,         \* the dict the last to_dict() returned
    snapshot_was,     \* and what it held when it was returned
    restored,         \* the dict the last from_dict() was given
    restored_was,     \* and what it held when it was given
    snap_op,          \* the last operation on the live store
    snap_ops          \* operations made on the live store so far

managerVars == <<running, sdl_initialized, controllers, mode, open, attrs, mappings,
                 pc, op, processed, failed_cmd, trace, exc>>
closeVars == <<objs, close_calls, closes>>
storeVars == <<cfg, cfg_attrs, disk, cfg_op, cfg_arg, cfg_exc, cfg_ops>>
stickVars == <<stick_cfg, stick_raw, stick_out, stick_op>>
triggerVars == <<trig_raw, trig_out, trig_op>>
sceneVars == <<camera, pixel_size, view_pose, models, selection, sens,
               scene_calls, apply_op, apply_args, apply_exc, applies>>
snapshotVars == <<heap, live, snapshot, snapshot_was, restored, restored_was, snap_op, snap_ops>>

vars == <<running, sdl_initialized, controllers, mode, open, attrs, mappings,
          pc, op, processed, failed_cmd, trace, exc, objs, close_calls, closes,
          cfg, cfg_attrs, disk, cfg_op, cfg_arg, cfg_exc, cfg_ops,
          stick_cfg, stick_raw, stick_out, stick_op,
          trig_raw, trig_out, trig_op,
          camera, pixel_size, view_pose, models, selection, sens,
          scene_calls, apply_op, apply_args, apply_exc, applies,
          heap, live, snapshot, snapshot_was, restored, restored_was, snap_op, snap_ops>>

\* No Controller is being read.
NoStick ==
    /\ stick_cfg = <<>>
    /\ stick_raw = <<>>
    /\ stick_out = <<>>
    /\ stick_op = ""

\* No trigger is being read.
NoTrigger ==
    /\ trig_raw = <<>>
    /\ trig_out = <<>>
    /\ trig_op = ""

\* No applier has a scene to act on.
NoScene ==
    /\ camera = <<>>
    /\ pixel_size = None
    /\ view_pose = 0
    /\ models = <<>>
    /\ selection = {}
    /\ sens = <<>>
    /\ scene_calls = <<>>
    /\ apply_op = ""
    /\ apply_args = <<>>
    /\ apply_exc = ""
    /\ applies = 0

\* No store is being snapshot.
NoSnapshot ==
    /\ heap = <<>>
    /\ live = <<>>
    /\ snapshot = <<>>
    /\ snapshot_was = <<>>
    /\ restored = <<>>
    /\ restored_was = <<>>
    /\ snap_op = ""
    /\ snap_ops = 0

\* ------------------------------------------------------------- Controller

\* A Controller object: Controller.__init__
Controller(sdl_controller, instance_id) ==
    [instance_id |-> instance_id, sdl_controller |-> sdl_controller]

\* Controller.close, had it not cleared the handle it released
Controller_close_keeps_handle(c) ==
    IF c.sdl_controller # None
    THEN [obj |-> c, released |-> <<c.sdl_controller>>]
    ELSE [obj |-> c, released |-> <<>>]

\* Controller.close: the object afterwards, and the handles it passed to
\* SDL_GameControllerClose.
Controller_close(c) ==
    IF c.sdl_controller # None
    THEN [obj |-> [c EXCEPT !.sdl_controller = None],
          released |-> <<c.sdl_controller>>]
    ELSE [obj |-> c, released |-> <<>>]

Abs(x) == IF x < 0 THEN -x ELSE x
Max(a, b) == IF a > b THEN a ELSE b

\* _normalize_axis, had it not rescaled the range left by the dead zone
_normalize_axis_unscaled(value, dz) ==
    IF 100 * Abs(value) < dz * AXIS_MAX
    THEN [num |-> 0, den |-> 1]
    ELSE [num |-> value, den |-> AXIS_MAX]

\* Controller._normalize_axis, in exact arithmetic: the dead zone is dz/100
\* and the result is the fraction num/den, den > 0.
_normalize_axis(value, dz) ==
    IF 100 * Abs(value) < dz * AXIS_MAX
    THEN [num |-> 0, den |-> 1]
    ELSE [num |-> (IF value > 0 THEN 1 ELSE -1)
                      * (100 * Abs(value) - dz * AXIS_MAX),
          den |-> AXIS_MAX * (100 - dz)]

\* Controller.get_left_stick / get_right_stick on raw axes x, y
get_stick(x, y, dz, invert_y) ==
    LET y1 == IF invert_y THEN -y ELSE y
    IN  <<_normalize_axis(x, dz), _normalize_axis(y1, dz)>>

\* get_trigger, had it given the trigger the dead-zone treatment of a stick
get_trigger_dead_zone(value) == _normalize_axis(Max(0, value), stick_cfg.dead_zone)

\* Controller.get_left_trigger / get_right_trigger
get_trigger(value) == [num |-> Max(0, value), den |-> AXIS_MAX]

\* The raw axis state a device reports when it is read.
Raw(lx, ly, rx, ry, lt, rt) ==
    [lx |-> lx, ly |-> ly, rx |-> rx, ry |-> ry, lt |-> lt, rt |-> rt]
Drift == Raw(3000, -2000, 0, 1000, 0, 0)
Deflected == Raw(0, 0, 20000, 0, 0, 32767)
Samples == {Drift, Deflected}

\* The five scalars GamepadManager._process_controller computes from a read.
Scalars(raw, dz, invert_y) ==
    LET l == get_stick(raw.lx, raw.ly, dz, invert_y)
        r == get_stick(raw.rx, raw.ry, dz, invert_y)
        lt == get_trigger(raw.lt)
        rt == get_trigger(raw.rt)
    IN  [left_x |-> l[1], left_y |-> l[2], right_x |-> r[1], right_y |-> r[2],
         zoom |-> [num |-> rt.num - lt.num, den |-> AXIS_MAX]]

\* abs(v) < 0.001 and abs(v) > 0.001 on a fraction
Below(v) == IDLE_EPS_DEN * Abs(v.num) < v.den
Above(v) == IDLE_EPS_DEN * Abs(v.num) > v.den

\* ------------------------------------------------------------ the manager

M == [running |-> running, sdl_initialized |-> sdl_initialized,
      controllers |-> controllers, mode |-> mode, open |-> open,
      attrs |-> attrs, mappings |-> mappings, failed_cmd |-> failed_cmd,
      trace |-> <<>>, exc |-> ""]

Log(m, e) == [m EXCEPT !.trace = Append(@, e)]
Raise(m, e) == [Log(m, Entry("raise", None)) EXCEPT !.exc = e]

HasKey(d, id) == \E i \in DOMAIN d : d[i].instance_id = id
\* d[id] = c on a dict, which keeps insertion order
DictSet(d, id, c) ==
    IF HasKey(d, id)
    THEN [i \in DOMAIN d |-> IF d[i].instance_id = id THEN c ELSE d[i]]
    ELSE Append(d, c)
DictGet(d, id) == d[CHOOSE i \in DOMAIN d : d[i].instance_id = id]
IsNot(c, id) == c.instance_id # id
DictDel(d, id) == SelectSeq(d, LAMBDA c : IsNot(c, id))
Keys(d) == {d[i].instance_id : i \in DOMAIN d}

\* SDL_GameControllerClose on each handle of hs
RECURSIVE SDL_GameControllerClose(_, _)
SDL_GameControllerClose(m, hs) ==
    IF hs = <<>> THEN m
    ELSE SDL_GameControllerClose(
             [Log(m, Entry("SDL_GameControllerClose", Head(hs)))
                 EXCEPT !.open = @ \ {Head(hs)}],
             Tail(hs))

\* _notify_status_change, had it let the listener's exception through
_notify_status_change_propagates(m, in) ==
    LET m1 == Log(m, Entry("on_status_change", Len(m.controllers)))
    IN  IF in.listener_raises THEN Raise(m1, "Exception") ELSE m1

\* GamepadManager._notify_status_change: the listener the tool registered is
\* called with the registry as it is; what it raises is suppressed
\* (in.listener_raises: the listener raises).
_notify_status_change(m, in) ==
    LET m1 == Log(m, Entry("on_status_change", Len(m.controllers)))
    IN  IF in.listener_raises THEN Log(m1, Entry("suppress", None)) ELSE m1

\* SDL_GameControllerOpen: a new handle, or None when the device does not
\* open (it is not openable now, or SDL has no handle left).
SDL_GameControllerOpen(m, device_index, in) ==
    IF device_index \in in.openable /\ Handles \ m.open # {}
    THEN CHOOSE h \in Handles \ m.open : \A g \in Handles \ m.open : h <= g
    ELSE None

\* _open_controller, had it notified the listener whatever the open returned
_open_controller_always_notifies(m, device_index, in) ==
    LET gc == SDL_GameControllerOpen(m, device_index, in)
        m1 == Log(m, Entry("SDL_GameControllerOpen", gc))
    IN  IF gc # None
        THEN LET instance_id == SDL_JoystickInstanceID(device_index)
                 controller == Controller(gc, instance_id)
                 m2 == [m1 EXCEPT !.open = @ \cup {gc},
                                  !.controllers = DictSet(@, instance_id, controller)]
             IN  _notify_status_change(m2, in)
        ELSE _notify_status_change(m1, in)

\* GamepadManager._open_controller: the trace keeps what the open returned
_open_controller(m, device_index, in) ==
    LET gc == SDL_GameControllerOpen(m, device_index, in)
        m1 == Log(m, Entry("SDL_GameControllerOpen", gc))
    IN  IF gc # None
        THEN LET instance_id == SDL_JoystickInstanceID(device_index)
                 controller == Controller(gc, instance_id)
                 m2 == [m1 EXCEPT !.open = @ \cup {gc},
                                  !.controllers = DictSet(@, instance_id, controller)]
             IN  _notify_status_change(m2, in)
        ELSE m1

\* _close_controller, had it closed the controller and kept its entry
_close_controller_keeps_entry(m, instance_id, in) ==
    IF HasKey(m.controllers, instance_id)
    THEN LET controller == DictGet(m.controllers, instance_id)
             r == Controller_close(controller)
             m1 == SDL_GameControllerClose(m, r.released)
             m2 == [m1 EXCEPT !.controllers = DictSet(@, instance_id, r.obj)]
         IN  _notify_status_change(m2, in)
    ELSE m

\* _close_controller, had it notified the listener without looking the id up
_close_controller_unguarded(m, instance_id, in) ==
    IF HasKey(m.controllers, instance_id)
    THEN LET controller == DictGet(m.controllers, instance_id)
             r == Controller_close(controller)
             m1 == SDL_GameControllerClose(m, r.released)
             m2 == [m1 EXCEPT !.controllers = DictDel(@, instance_id)]
         IN  _notify_status_change(m2, in)
    ELSE _notify_status_change(m, in)

\* GamepadManager._close_controller
_close_controller(m, instance_id, in) ==
    IF HasKey(m.controllers, instance_id)
    THEN LET controller == DictGet(m.controllers, instance_id)
             r == Controller_close(controller)
             m1 == SDL_GameControllerClose(m, r.released)
             m2 == [m1 EXCEPT !.controllers = DictDel(@, instance_id)]
         IN  _notify_status_change(m2, in)
    ELSE m

\* toggle_mode, had it lacked the branch back to VIEW
toggle_mode_one_way(m) ==
    Log([m EXCEPT !.mode = MODEL], Entry("toggle_mode", None))

\* GamepadManager.toggle_mode
toggle_mode(m) ==
    Log([m EXCEPT !.mode = IF @ = VIEW THEN MODEL ELSE VIEW],
        Entry("toggle_mode", None))

\* The handles Controller.close releases over a dict's values, in order.
RECURSIVE CloseAll(_)
CloseAll(d) ==
    IF d = <<>> THEN <<>>
    ELSE Controller_close(Head(d)).released \o CloseAll(Tail(d))

\* stop, had it closed the controllers and kept the registry
stop_keeps_registry(m) ==
    LET m1 == [Log(m, Entry("stop", None)) EXCEPT !.running = FALSE]
        m2 == SDL_GameControllerClose(m1, CloseAll(m1.controllers))
    IN  IF m2.sdl_initialized
        THEN [Log(m2, Entry("SDL_Quit", None)) EXCEPT !.sdl_initialized = FALSE]
        ELSE m2

\* GamepadManager.stop
stop(m) ==
    LET m1 == [Log(m, Entry("stop", None)) EXCEPT !.running = FALSE]
        m2 == SDL_GameControllerClose(m1, CloseAll(m1.controllers))
        m3 == [m2 EXCEPT !.controllers = <<>>]
    IN  IF m3.sdl_initialized
        THEN [Log(m3, Entry("SDL_Quit", None)) EXCEPT !.sdl_initialized = FALSE]
        ELSE m3

\* cmd.gamepad_stop
gamepad_stop(m) == stop(m)

\* GamepadTool.delete: the frame handler is removed and the manager stopped
delete(m) == stop(Log(m, Entry("delete", None)))

\* cmd.gamepad_mode
gamepad_mode(m, mode_name) ==
    LET m0 == Log(m, Entry("gamepad_mode", None))
    IN  IF mode_name = "view" THEN [m0 EXCEPT !.mode = VIEW]
        ELSE IF mode_name = "model" THEN [m0 EXCEPT !.mode = MODEL]
        ELSE m0

\* chimerax.core.commands.run on a bound command: the command's effect and
\* whether it raised.
run(m, command) ==
    CASE command = "gamepad stop" -> [m |-> gamepad_stop(m), raised |-> FALSE]
      [] command = "gamepad mode model" ->
            [m |-> gamepad_mode(m, "model"), raised |-> FALSE]
      [] OTHER -> [m |-> m, raised |-> TRUE]

\* GamepadConfig.get_button_command
get_button_command(m, button) ==
    LET button_name == button_to_name(button)
    IN  IF button_name \in DOMAIN m.mappings THEN m.mappings[button_name]
        ELSE NoCommand

\* _handle_button_press, had it looked the button up in the mapping table
\* before it tested for the toggle button
_handle_button_press_lookup_first(m, button) ==
    LET command == get_button_command(m, button)
    IN  IF command # NoCommand
        THEN LET r == run(Log(m, CmdEntry("run", command)), command)
             IN  IF r.raised
                 THEN [Log(r.m, CmdEntry("logger.warning", command))
                          EXCEPT !.failed_cmd = TRUE]
                 ELSE r.m
        ELSE IF button = SDL_CONTROLLER_BUTTON_START
        THEN toggle_mode(m)
        ELSE m

\* GamepadManager._handle_button_press
_handle_button_press(m, button) ==
    IF button = SDL_CONTROLLER_BUTTON_START
    THEN toggle_mode(m)
    ELSE LET command == get_button_command(m, button)
         IN  IF command # NoCommand
             THEN LET r == run(Log(m, CmdEntry("run", command)), command)
                  IN  IF r.raised
                      THEN [Log(r.m, CmdEntry("logger.warning", command))
                               EXCEPT !.failed_cmd = TRUE]
                      ELSE r.m
             ELSE m

\* GamepadManager._handle_event
_handle_event(m, event, in) ==
    IF event.type = "SDL_CONTROLLERDEVICEADDED"
    THEN _open_controller(m, event.which, in)
    ELSE IF event.type = "SDL_CONTROLLERDEVICEREMOVED"
    THEN _close_controller(m, event.which, in)
    ELSE IF event.type = "SDL_CONTROLLERBUTTONDOWN"
    THEN _handle_button_press(m, event.which)
    ELSE m

\* ---------------------------------------------------------------- appliers

AllBelow(s) ==
    /\ Below(s.left_x) /\ Below(s.left_y)
    /\ Below(s.right_x) /\ Below(s.right_y) /\ Below(s.zoom)

\* ViewAction.apply: the scene calls are not followed here, only whether the
\* call returns or raises.
ViewAction_apply(m, id, s) ==
    LET m0 == Log(m, Entry("ViewAction.apply", id))
    IN  IF AllBelow(s) THEN m0
        ELSE IF "view_sensitivity" \notin m0.attrs
        THEN Raise(m0, "AttributeError")
        ELSE Log(m0, Entry("view changed", id))

\* ModelAction.apply; in.eligible: the selection holds a top-level model.
ModelAction_apply(m, id, s, in) ==
    LET m0 == Log(m, Entry("ModelAction.apply", id))
    IN  IF ~in.eligible THEN m0
        ELSE IF AllBelow(s) THEN m0
        ELSE IF "model_sensitivity" \notin m0.attrs
        THEN Raise(m0, "AttributeError")
        ELSE Log(m0, Entry("models changed", id))

\* GamepadManager._process_controller; in.raw: the axes the device reports.
_process_controller(m, controller, in) ==
    LET m0 == Log(m, Entry("SDL_GameControllerGetAxis", controller.sdl_controller))
        s == Scalars(in.raw, DEFAULT_DEAD_ZONE_PCT, FALSE)
    IN  IF m0.mode = VIEW
        THEN ViewAction_apply(m0, controller.instance_id, s)
        ELSE ModelAction_apply(m0, controller.instance_id, s, in)

\* GamepadManager._discover_controllers, over the attached devices
RECURSIVE _discover_controllers(_, _, _)
_discover_controllers(m, i, in) ==
    IF i > MaxDevices THEN m
    ELSE _discover_controllers(
             IF i \in in.attached THEN _open_controller(m, i, in) ELSE m,
             i + 1, in)

\* start, had it set its flags before it looked at what SDL_Init returned
start_flags_first(m, in) ==
    LET m0 == Log(m, Entry("start", None))
    IN  IF m0.sdl_initialized THEN m0
        ELSE IF ~in.init_ok
        THEN Raise([Log(m0, Entry("SDL_Init", -1))
                       EXCEPT !.sdl_initialized = TRUE, !.running = TRUE],
                   "RuntimeError")
        ELSE _discover_controllers(
                 [Log(m0, Entry("SDL_Init", 0))
                     EXCEPT !.sdl_initialized = TRUE, !.running = TRUE],
                 1, in)

\* start, had it lacked the early return on an initialized manager
start_unguarded(m, in) ==
    LET m0 == Log(m, Entry("start", None))
    IN  IF ~in.init_ok
        THEN Raise(Log(m0, Entry("SDL_Init", -1)), "RuntimeError")
        ELSE _discover_controllers(
                 [Log(m0, Entry("SDL_Init", 0))
                     EXCEPT !.sdl_initialized = TRUE, !.running = TRUE],
                 1, in)

\* GamepadManager.start: the trace keeps what SDL_Init returned
start(m, in) ==
    LET m0 == Log(m, Entry("start", None))
    IN  IF m0.sdl_initialized THEN m0
        ELSE IF ~in.init_ok
        THEN Raise(Log(m0, Entry("SDL_Init", -1)), "RuntimeError")
        ELSE _discover_controllers(
                 [Log(m0, Entry("SDL_Init", 0))
                     EXCEPT !.sdl_initialized = TRUE, !.running = TRUE],
                 1, in)

\* gamepad_sensitivity, had it also reset the mode
gamepad_sensitivity_resets_mode(m, target) ==
    LET m0 == [Log(m, Entry("gamepad_sensitivity", None)) EXCEPT !.mode = VIEW]
    IN  IF target = "view"
        THEN [m0 EXCEPT !.attrs = @ \cup {"view_sensitivity"}]
        ELSE IF target = "model"
        THEN [m0 EXCEPT !.attrs = @ \cup {"model_sensitivity"}]
        ELSE m0

\* cmd.gamepad_sensitivity: the attribute is set on the config object
gamepad_sensitivity(m, target) ==
    LET m0 == Log(m, Entry("gamepad_sensitivity", None))
    IN  IF target = "view"
        THEN [m0 EXCEPT !.attrs = @ \cup {"view_sensitivity"}]
        ELSE IF target = "model"
        THEN [m0 EXCEPT !.attrs = @ \cup {"model_sensitivity"}]
        ELSE m0

\* set_button_command, had it rebuilt the table around the one button
set_button_command_drops_others(m, button_name, command) ==
    IF command # NoCommand
    THEN [m EXCEPT !.mappings = [b \in {button_name} |-> command]]
    ELSE IF button_name \in DOMAIN m.mappings
    THEN [m EXCEPT !.mappings = [b \in DOMAIN @ \ {button_name} |-> @[b]]]
    ELSE m

\* GamepadConfig.set_button_command
set_button_command(m, button_name, command) ==
    IF command # NoCommand
    THEN [m EXCEPT !.mappings =
            [b \in DOMAIN @ \cup {button_name} |->
                IF b = button_name THEN command ELSE @[b]]]
    ELSE IF button_name \in DOMAIN m.mappings
    THEN [m EXCEPT !.mappings = [b \in DOMAIN @ \ {button_name} |-> @[b]]]
    ELSE m

\* cmd.gamepad_bind / cmd.gamepad_unbind
gamepad_bind(m, button, command) ==
    set_button_command(Log(m, Entry("gamepad_bind", None)), button, command)

\* ------------------------------------------------------- the dispatch loop

\* update, had it not looked at _running on entry
update_entry_ignores_running(m) == "events"

\* GamepadManager.update, on entry: if not self._running: return
update_entry(m) == IF ~m.running THEN "done" ELSE "events"

\* update, one iteration of: while SDL_PollEvent(...): self._handle_event(event)
update_event(m, event, in) ==
    _handle_event(Log(m, Entry(event.type, event.which)), event, in)

\* update, when SDL_PollEvent returns 0: the for loop over
\* self.controllers.values() starts, and ends at once on an empty registry.
update_drained(m) == IF m.controllers = <<>> THEN "done" ELSE "analog"

\* update, one iteration of: for controller in self.controllers.values()
update_analog(m, done, in) ==
    _process_controller(m, m.controllers[Len(done) + 1], in)

\* update, after an iteration of the for loop: an exception leaves update(),
\* otherwise the loop goes on to the next controller, if any.
update_analog_next(m, done) ==
    IF m.exc # "" THEN "done"
    ELSE IF Len(done) < Len(m.controllers) THEN "analog"
    ELSE "done"

\* ---------------------------------------------------------------- actions

\* What the environment decides during one step.
NoInput ==
    [openable |-> {}, attached |-> {}, init_ok |-> TRUE, eligible |-> FALSE,
     raw |-> Drift, listener_raises |-> FALSE]

Commit(m, next_pc, name, done) ==
    /\ running' = m.running
    /\ sdl_initialized' = m.sdl_initialized
    /\ controllers' = m.controllers
    /\ mode' = m.mode
    /\ open' = m.open
    /\ attrs' = m.attrs
    /\ mappings' = m.mappings
    /\ failed_cmd' = m.failed_cmd
    /\ trace' = m.trace
    /\ exc' = m.exc
    /\ pc' = next_pc
    /\ op' = name
    /\ processed' = done
    /\ UNCHANGED <<closeVars, storeVars, stickVars, triggerVars, sceneVars,
                   snapshotVars>>

Init ==
    /\ running = FALSE
    /\ sdl_initialized = FALSE
    /\ controllers = <<>>
    /\ mode = VIEW
    /\ open = {}
    /\ attrs = {}
    /\ mappings = <<>>
    /\ pc = "idle"
    /\ op = ""
    /\ processed = <<>>
    /\ failed_cmd = FALSE
    /\ trace = <<>>
    /\ exc = ""
    /\ objs = <<>>
    /\ close_calls = <<>>
    /\ closes = <<>>
    /\ cfg = <<>>
    /\ cfg_attrs = <<>>
    /\ disk = <<>>
    /\ cfg_op = ""
    /\ cfg_arg = <<>>
    /\ cfg_exc = ""
    /\ cfg_ops = 0
    /\ NoStick
    /\ NoTrigger
    /\ NoScene
    /\ NoSnapshot

\* The tool's constructor or 'gamepad start' calls start()
Start ==
    /\ pc = "idle"
    /\ \E attached \in SUBSET Devices, openable \in SUBSET Devices, ok \in BOOLEAN,
          raises \in BOOLEAN :
        /\ openable \subseteq attached
        /\ ok \/ attached = {}
        /\ Commit(start(M, [NoInput EXCEPT !.attached = attached,
                                           !.openable = openable,
                                           !.init_ok = ok,
                                           !.listener_raises = raises]),
                  "done", "start", <<>>)

\* 'gamepad stop' from the command line
Stop ==
    /\ pc = "idle"
    /\ Commit(gamepad_stop(M), "done", "stop", <<>>)

\* The host's frame tick: GamepadTool._on_frame calls update()
UpdateCall ==
    /\ pc = "idle"
    /\ Commit(Log(M, Entry("update", None)), update_entry(M), "update", <<>>)

\* SDL_PollEvent delivers an event and update() handles it
UpdateEvent ==
    /\ pc = "events"
    /\ \E event \in Events, openable \in SUBSET Devices, raises \in BOOLEAN :
        /\ openable \subseteq
              (IF event.type = "SDL_CONTROLLERDEVICEADDED" THEN {event.which} ELSE {})
        /\ Commit(update_event(M, event, [NoInput EXCEPT !.openable = openable,
                                                         !.listener_raises = raises]),
                  "events", "update", processed)

\* SDL_PollEvent returns 0: the event loop ends
UpdateDrained ==
    /\ pc = "events"
    /\ Commit(Log(M, Entry("SDL_PollEvent", 0)), update_drained(M), "update",
              processed)

\* update() processes the next controller of the registry
UpdateAnalog ==
    /\ pc = "analog"
    /\ \E raw \in Samples, eligible \in BOOLEAN :
        LET m == update_analog(M, processed,
                               [NoInput EXCEPT !.raw = raw, !.eligible = eligible])
            done == Append(processed, controllers[Len(processed) + 1].instance_id)
        IN  Commit(m, update_analog_next(m, done), "update", done)

\* 'gamepad mode <view|model>' from the command line
GamepadMode ==
    /\ pc = "idle"
    /\ \E mode_name \in {"view", "model"} :
        Commit(gamepad_mode(M, mode_name), "done", "gamepad_mode", <<>>)

\* The tool window's Toggle Mode button: GamepadTool._toggle_mode
ToolToggleMode ==
    /\ pc = "idle"
    /\ Commit(toggle_mode(M), "done", "_toggle_mode", <<>>)

\* 'gamepad sensitivity <view|model> v' from the command line
GamepadSensitivity ==
    /\ pc = "idle"
    /\ \E target \in {"view", "model"} :
        Commit(gamepad_sensitivity(M, target), "done", "gamepad_sensitivity", <<>>)

\* 'gamepad bind <button> <command>' and 'gamepad unbind <button>'
GamepadBind ==
    /\ pc = "idle"
    /\ \E b \in ButtonNames, c \in Commands \cup {NoCommand} :
        Commit(gamepad_bind(M, b, c), "done", "gamepad_bind", <<>>)

\* The tool window is closed: GamepadTool.delete. The tool and its manager
\* are gone afterwards.
ToolDelete ==
    /\ pc = "idle"
    /\ Commit(delete(M), "deleted", "delete", <<>>)

\* The operation has returned to the host's event loop.
Return ==
    /\ pc = "done"
    /\ pc' = "idle"
    /\ op' = ""
    /\ processed' = <<>>
    /\ failed_cmd' = FALSE
    /\ trace' = <<>>
    /\ exc' = ""
    /\ UNCHANGED <<running, sdl_initialized, controllers, mode, open, attrs,
                   mappings, closeVars, storeVars, stickVars, triggerVars, sceneVars,
                   snapshotVars>>

Next ==
    \/ Start
    \/ Stop
    \/ UpdateCall
    \/ UpdateEvent
    \/ UpdateDrained
    \/ UpdateAnalog
    \/ GamepadMode
    \/ ToolToggleMode
    \/ GamepadSensitivity
    \/ GamepadBind
    \/ ToolDelete
    \/ Return

Spec == Init /\ [][Next]_vars

TypeOK ==
    /\ running \in BOOLEAN /\ sdl_initialized \in BOOLEAN
    /\ mode \in {VIEW, MODEL}
    /\ open \subseteq Handles
    /\ attrs \subseteq {"view_sensitivity", "model_sensitivity"}
    /\ pc \in {"idle", "events", "analog", "done", "deleted"}

\* ------------------------------------------- button presses and bindings

SDL_CONTROLLER_BUTTON_B == 1
\* The buttons pressed: one that can be bound, one that never is, the toggle.
PressButtons ==
    {SDL_CONTROLLER_BUTTON_A, SDL_CONTROLLER_BUTTON_B, SDL_CONTROLLER_BUTTON_START}
\* The names 'gamepad bind' is given: any string is taken, START included.
BindNames == {"A", "START"}

\* The tool's constructor calls start() with no controller attached
PressStart ==
    /\ pc = "idle"
    /\ Commit(start(M, NoInput), "done", "start", <<>>)

\* SDL_PollEvent delivers a button-press event and update() handles it
PressEvent ==
    /\ pc = "events"
    /\ \E b \in PressButtons :
        Commit(update_event(M, ButtonDown(b), NoInput), "events", "update", processed)

\* 'gamepad bind <button> <command>' and 'gamepad unbind <button>'
BindButton ==
    /\ pc = "idle"
    /\ \E b \in BindNames, c \in Commands \cup {NoCommand} :
        Commit(gamepad_bind(M, b, c), "done", "gamepad_bind", <<>>)

NextPress ==
    \/ PressStart
    \/ UpdateCall
    \/ PressEvent
    \/ UpdateDrained
    \/ BindButton
    \/ Return

SpecPress == Init /\ [][NextPress]_vars

\* ------------------------------- Controller objects outside the registry

Objects == 1..MaxObjects

\* Each object is constructed around a handle of its own: Controller.__init__
InitClose ==
    /\ running = FALSE
    /\ sdl_initialized = FALSE
    /\ controllers = <<>>
    /\ mode = VIEW
    /\ open = {}
    /\ attrs = {}
    /\ mappings = <<>>
    /\ pc = "idle"
    /\ op = ""
    /\ processed = <<>>
    /\ failed_cmd = FALSE
    /\ trace = <<>>
    /\ exc = ""
    /\ objs = [o \in Objects |-> Controller(o, SDL_JoystickInstanceID(o))]
    /\ close_calls = [o \in Objects |-> 0]
    /\ closes = [o \in Objects |-> 0]
    /\ cfg = <<>>
    /\ cfg_attrs = <<>>
    /\ disk = <<>>
    /\ cfg_op = ""
    /\ cfg_arg = <<>>
    /\ cfg_exc = ""
    /\ cfg_ops = 0
    /\ NoStick
    /\ NoTrigger
    /\ NoScene
    /\ NoSnapshot

\* A caller calls close() on the object
Close(o) ==
    /\ close_calls[o] < MaxCloseCalls
    /\ LET r == Controller_close(objs[o])
       IN  /\ objs' = [objs EXCEPT ![o] = r.obj]
           /\ closes' = [closes EXCEPT ![o] = @ + Len(r.released)]
    /\ close_calls' = [close_calls EXCEPT ![o] = @ + 1]
    /\ UNCHANGED <<managerVars, storeVars, stickVars, triggerVars, sceneVars,
                   snapshotVars>>

NextClose == \E o \in Objects : Close(o)

SpecClose == InitClose /\ [][NextClose]_vars

\* ------------------------------------------------ the configuration store

Min(a, b) == IF a < b THEN a ELSE b

\* The values a configuration document holds: numbers (in hundredths),
\* booleans, and the button mapping table.
Num(n) == [t |-> "num", n |-> n, m |-> <<>>]
Bool(b) == [t |-> "bool", n |-> IF b THEN 1 ELSE 0, m |-> <<>>]
Map(m) == [t |-> "map", n |-> 0, m |-> m]

\* GamepadConfig.DEFAULT_CONFIG
DEFAULT_CONFIG ==
    [k \in {"dead_zone", "translation_sensitivity", "rotation_sensitivity",
            "zoom_sensitivity", "invert_y", "button_mappings"} |->
        CASE k = "dead_zone" -> Num(DEFAULT_DEAD_ZONE_PCT)
          [] k = "invert_y" -> Bool(FALSE)
          [] k = "button_mappings" -> Map(<<>>)
          [] OTHER -> Num(DEFAULT_SENSITIVITY_PCT)]

\* The order json.dump writes the keys of a dict in.
KeyOrder ==
    <<"dead_zone", "translation_sensitivity", "rotation_sensitivity",
      "zoom_sensitivity", "invert_y", "button_mappings", "legacy">>

\* d[key] = value
DictPut(d, key, value) ==
    [k \in DOMAIN d \cup {key} |-> IF k = key THEN value ELSE d[k]]

\* dict.update with the key/value pairs of a document, in order
RECURSIVE dict_update(_, _)
dict_update(d, pairs) ==
    IF pairs = <<>> THEN d
    ELSE dict_update(DictPut(d, Head(pairs)[1], Head(pairs)[2]), Tail(pairs))

\* What config.json can be: absent, not readable, not JSON, a JSON scalar, a
\* JSON array of pairs that ends in a scalar, or a JSON object.
Missing == [kind |-> "missing", pairs |-> <<>>]
Unreadable == [kind |-> "unreadable", pairs |-> <<>>]
Malformed == [kind |-> "malformed", pairs |-> <<>>]
Scalar == [kind |-> "scalar", pairs |-> <<>>]
Array(pairs) == [kind |-> "array", pairs |-> pairs]
Object(pairs) == [kind |-> "object", pairs |-> pairs]

\* json.dump of a dict: an object with the dict's items
RECURSIVE json_items(_, _)
json_items(d, i) ==
    IF i > Len(KeyOrder) THEN <<>>
    ELSE (IF KeyOrder[i] \in DOMAIN d THEN <<<<KeyOrder[i], d[KeyOrder[i]]>>>>
          ELSE <<>>) \o json_items(d, i + 1)
json_dump(d) == Object(json_items(d, 1))

\* The documents met on disk and in session snapshots.
Docs ==
    {<<>>,
     <<<<"dead_zone", Num(30)>>, <<"legacy", Num(1)>>>>,
     <<<<"dead_zone", Num(90)>>, <<"zoom_sensitivity", Num(900)>>>>}
DiskStates ==
    {Missing, Unreadable, Malformed, Scalar, Array(<<<<"dead_zone", Num(30)>>>>)}
        \cup {Object(d) : d \in Docs}

\* A store: its _config dict, its other attributes, what its last call raised.
Store(config, at, e) == [config |-> config, attrs |-> at, exc |-> e]

\* GamepadConfig.load
load(c, file) ==
    CASE file.kind = "missing" -> c
      [] file.kind \in {"unreadable", "malformed"} -> c
      [] file.kind = "scalar" -> [c EXCEPT !.exc = "TypeError"]
      [] file.kind = "array" ->
            [c EXCEPT !.config = dict_update(@, file.pairs), !.exc = "TypeError"]
      [] OTHER -> [c EXCEPT !.config = dict_update(@, file.pairs)]

\* GamepadConfig.__init__
GamepadConfig(file) == load(Store(DEFAULT_CONFIG, <<>>, ""), file)

\* GamepadConfig.save: the document on disk afterwards; writable: open()
\* succeeds
save(c, file, writable) == IF writable THEN json_dump(c.config) ELSE file

\* The property setters
dead_zone_setter(c, value) ==
    [c EXCEPT !.config =
        DictPut(@, "dead_zone", Num(Max(0, Min(DEAD_ZONE_MAX_PCT, value))))]
sensitivity_setter_no_floor(c, key, value) ==
    [c EXCEPT !.config = DictPut(@, key, Num(Min(SENSITIVITY_MAX_PCT, value)))]
sensitivity_setter(c, key, value) ==
    [c EXCEPT !.config =
        DictPut(@, key, Num(Max(SENSITIVITY_MIN_PCT, Min(SENSITIVITY_MAX_PCT, value))))]
translation_sensitivity_setter(c, value) ==
    sensitivity_setter(c, "translation_sensitivity", value)
rotation_sensitivity_setter(c, value) ==
    sensitivity_setter(c, "rotation_sensitivity", value)
zoom_sensitivity_setter(c, value) ==
    sensitivity_setter(c, "zoom_sensitivity", value)
invert_y_setter(c, value) ==
    [c EXCEPT !.config = DictPut(@, "invert_y", Bool(value))]

\* GamepadConfig.from_dict
from_dict(c, data) == [c EXCEPT !.config = dict_update(@, data)]

\* setattr on the store: config.view_sensitivity = value
SetAttr(c, name, value) == [c EXCEPT !.attrs = DictPut(@, name, value)]

\* cmd.gamepad_sensitivity on a store
store_gamepad_sensitivity(c, target, value) ==
    IF target = "view" THEN SetAttr(c, "view_sensitivity", value)
    ELSE IF target = "model" THEN SetAttr(c, "model_sensitivity", value)
    ELSE c

\* GamepadConfig.set_button_command / get_button_command on a store
Table(c) == [mappings |-> c.config["button_mappings"].m]
store_set_button_command(c, button_name, command) ==
    [c EXCEPT !.config =
        DictPut(@, "button_mappings",
                Map(set_button_command(Table(c), button_name, command).mappings))]
store_get_button_command(c, button) == get_button_command(Table(c), button)

\* The values handed to the setters and commands: below every range, inside
\* every range, above every range.
SetValues == {-20, 20, 600}
\* The positions Apply reads from the dialog's sliders.
DeadZoneSlider == {0, DEAD_ZONE_MAX_PCT}
SensitivitySlider == {SENSITIVITY_MIN_PCT, SENSITIVITY_MAX_PCT}
StoreButtons == {0, 1}
StoreCommands == {"gamepad stop", "bogus"}

Arg(name, n, command) == [name |-> name, n |-> n, cmd |-> command]

\* The store as the variables hold it.
S == Store(cfg, cfg_attrs, "")

\* The constructor returned a store (it did not raise).
StoreExists == ~(cfg_op \in {"__init__", "restore_snapshot"} /\ cfg_exc # "")

CommitStore(c, file, name, arg) ==
    /\ cfg' = c.config
    /\ cfg_attrs' = c.attrs
    /\ cfg_exc' = c.exc
    /\ disk' = file
    /\ cfg_op' = name
    /\ cfg_arg' = arg
    /\ cfg_ops' = cfg_ops + 1
    /\ UNCHANGED <<managerVars, closeVars, stickVars, triggerVars, sceneVars,
                   snapshotVars>>

\* A store is constructed over whatever config.json holds.
InitConfig ==
    /\ running = FALSE
    /\ sdl_initialized = FALSE
    /\ controllers = <<>>
    /\ mode = VIEW
    /\ open = {}
    /\ attrs = {}
    /\ mappings = <<>>
    /\ pc = "idle"
    /\ op = ""
    /\ processed = <<>>
    /\ failed_cmd = FALSE
    /\ trace = <<>>
    /\ exc = ""
    /\ objs = <<>>
    /\ close_calls = <<>>
    /\ closes = <<>>
    /\ disk \in DiskStates
    /\ cfg = GamepadConfig(disk).config
    /\ cfg_attrs = GamepadConfig(disk).attrs
    /\ cfg_exc = GamepadConfig(disk).exc
    /\ cfg_op = "__init__"
    /\ cfg_arg = Arg("", 0, "")
    /\ cfg_ops = 0
    /\ NoStick
    /\ NoTrigger
    /\ NoScene
    /\ NoSnapshot

CanAct == StoreExists /\ cfg_ops < MaxOps

\* config.translation_sensitivity = value
SetTranslationSensitivity ==
    /\ CanAct
    /\ \E v \in SetValues :
        CommitStore(translation_sensitivity_setter(S, v), disk, "setter",
                    Arg("translation_sensitivity", v, ""))

\* config.rotation_sensitivity = value
SetRotationSensitivity ==
    /\ CanAct
    /\ \E v \in SetValues :
        CommitStore(rotation_sensitivity_setter(S, v), disk, "setter",
                    Arg("rotation_sensitivity", v, ""))

\* config.zoom_sensitivity = value
SetZoomSensitivity ==
    /\ CanAct
    /\ \E v \in SetValues :
        CommitStore(zoom_sensitivity_setter(S, v), disk, "setter",
                    Arg("zoom_sensitivity", v, ""))

\* 'gamepad deadzone v': cmd.gamepad_deadzone sets the field and saves
CmdDeadzone ==
    /\ CanAct
    /\ \E v \in SetValues, writable \in BOOLEAN :
        LET c == dead_zone_setter(S, v)
        IN  CommitStore(c, save(c, disk, writable), "setter", Arg("dead_zone", v, ""))

\* 'gamepad sensitivity <view|model> v': cmd.gamepad_sensitivity sets the
\* attribute and saves
CmdSensitivity ==
    /\ CanAct
    /\ \E target \in {"view", "model"}, v \in SetValues, writable \in BOOLEAN :
        LET c == store_gamepad_sensitivity(S, target, v)
        IN  CommitStore(c, save(c, disk, writable), "gamepad_sensitivity",
                        Arg(target, v, ""))

\* 'gamepad bind b c' and 'gamepad unbind b': set_button_command and save
CmdBind ==
    /\ CanAct
    /\ \E b \in StoreButtons, command \in StoreCommands \cup {NoCommand},
          writable \in BOOLEAN :
        LET c == store_set_button_command(S, button_to_name(b), command)
        IN  CommitStore(c, save(c, disk, writable), "set_button_command",
                        Arg(button_to_name(b), b, command))

\* Apply in the settings dialog: SettingsDialog._apply. The dialog exists
\* only if its constructor could read both sensitivity attributes; the
\* mapping table is written back as it was loaded.
SettingsApply ==
    /\ CanAct
    /\ {"view_sensitivity", "model_sensitivity"} \subseteq DOMAIN cfg_attrs
    /\ \E dz \in DeadZoneSlider, vs \in SensitivitySlider, ms \in SensitivitySlider,
          inv \in BOOLEAN :
        LET c1 == dead_zone_setter(S, dz)
            c2 == SetAttr(c1, "view_sensitivity", vs)
            c3 == SetAttr(c2, "model_sensitivity", ms)
            c4 == invert_y_setter(c3, inv)
        IN  CommitStore(c4, save(c4, disk, TRUE), "_apply", Arg("", dz, ""))

\* The host restarts and the tool constructs a new store: GamepadConfig()
NewStore ==
    /\ CanAct
    /\ CommitStore(GamepadConfig(disk), disk, "__init__", Arg("", 0, ""))

\* GamepadTool.restore_snapshot: a new tool, hence a new store, then
\* from_dict(data["config"])
RestoreSnapshot ==
    /\ CanAct
    /\ \E data \in Docs :
        LET c == GamepadConfig(disk)
        IN  CommitStore(IF c.exc # "" THEN c ELSE from_dict(c, data), disk,
                        "restore_snapshot", Arg("", 0, ""))

NextConfig ==
    \/ SetTranslationSensitivity
    \/ SetRotationSensitivity
    \/ SetZoomSensitivity
    \/ CmdDeadzone
    \/ CmdSensitivity
    \/ CmdBind
    \/ SettingsApply
    \/ NewStore
    \/ RestoreSnapshot

SpecConfig == InitConfig /\ [][NextConfig]_vars

\* ------------------------------------------------ snapshots of the store

\* A dict is an object: the _config dict of a store holds its scalars by
\* value and its button_mappings dict by reference, an address of the heap.
Ref(a) == [t |-> "ref", n |-> a, m |-> <<>>]

\* What a reader of the dict d sees: its items, with the dict an item refers
\* to read from the heap.
Deep(d, h) ==
    [k \in DOMAIN d |-> IF d[k].t = "ref" THEN Map(h[d[k].n]) ELSE d[k]]

\* The store as the variables hold it.
Live == [config |-> live, heap |-> heap]

\* GamepadConfig.__init__ with no config.json: dict(DEFAULT_CONFIG), then a
\* dict of its own for button_mappings
GamepadConfig_init(h) ==
    [config |-> DictPut([k \in DOMAIN DEFAULT_CONFIG |-> DEFAULT_CONFIG[k]],
                        "button_mappings", Ref(Len(h) + 1)),
     heap |-> Append(h, DEFAULT_CONFIG["button_mappings"].m)]

\* GamepadConfig.to_dict: dict(self._config), a new dict with the same items
GamepadConfig_to_dict(c) == [k \in DOMAIN c.config |-> c.config[k]]

\* GamepadConfig.from_dict: self._config.update(data)
GamepadConfig_from_dict(c, pairs) == [c EXCEPT !.config = dict_update(@, pairs)]

\* GamepadConfig.set_button_command: the button_mappings dict is changed in
\* place
GamepadConfig_set_button_command(c, button_name, command) ==
    [c EXCEPT !.heap[c.config["button_mappings"].n] =
        set_button_command([mappings |-> @], button_name, command).mappings]

\* GamepadConfig.dead_zone (setter): the item of _config is replaced
GamepadConfig_set_dead_zone(c, value) ==
    [c EXCEPT !.config = dead_zone_setter(Store(@, <<>>, ""), value).config]

\* The dicts a session hands to restore_snapshot as data["config"]: the
\* scalars, and a button_mappings table or none.
SnapshotScalars == <<<<"dead_zone", Num(30)>>>>
SnapshotTables == {<<>>, [b \in {"A"} |-> "gamepad stop"]}

\* The dict with the items of a document
AsDict(pairs) == dict_update(<<>>, pairs)

CommitSnapshot(c, name) ==
    /\ live' = c.config
    /\ heap' = c.heap
    /\ snap_op' = name
    /\ snap_ops' = snap_ops + 1
    /\ UNCHANGED <<managerVars, closeVars, storeVars, stickVars, triggerVars,
                   sceneVars>>

\* The tool constructed its manager, and the manager its store.
InitSnapshot ==
    /\ running = FALSE
    /\ sdl_initialized = FALSE
    /\ controllers = <<>>
    /\ mode = VIEW
    /\ open = {}
    /\ attrs = {}
    /\ mappings = <<>>
    /\ pc = "idle"
    /\ op = ""
    /\ processed = <<>>
    /\ failed_cmd = FALSE
    /\ trace = <<>>
    /\ exc = ""
    /\ objs = <<>>
    /\ close_calls = <<>>
    /\ closes = <<>>
    /\ cfg = <<>>
    /\ cfg_attrs = <<>>
    /\ disk = <<>>
    /\ cfg_op = ""
    /\ cfg_arg = <<>>
    /\ cfg_exc = ""
    /\ cfg_ops = 0
    /\ NoStick
    /\ NoTrigger
    /\ NoScene
    /\ heap = GamepadConfig_init(<<>>).heap
    /\ live = GamepadConfig_init(<<>>).config
    /\ snapshot = <<>>
    /\ snapshot_was = <<>>
    /\ restored = <<>>
    /\ restored_was = <<>>
    /\ snap_op = "__init__"
    /\ snap_ops = 0

\* GamepadTool.take_snapshot: the session is handed config.to_dict()
TakeSnapshot ==
    /\ snap_ops < MaxSnapOps
    /\ snapshot' = GamepadConfig_to_dict(Live)
    /\ snapshot_was' = Deep(GamepadConfig_to_dict(Live), heap)
    /\ CommitSnapshot(Live, "take_snapshot")
    /\ UNCHANGED <<restored, restored_was>>

\* GamepadTool.restore_snapshot: a new tool, hence a new store, then
\* from_dict(data["config"]); the session holds data
RestoreFromSnapshot ==
    /\ snap_ops < MaxSnapOps
    /\ \E with_table \in BOOLEAN, table \in SnapshotTables :
        LET c == GamepadConfig_init(heap)
            a == Len(c.heap) + 1
            pairs == IF with_table
                     THEN Append(SnapshotScalars, <<"button_mappings", Ref(a)>>)
                     ELSE SnapshotScalars
            c1 == IF with_table THEN [c EXCEPT !.heap = Append(@, table)] ELSE c
        IN  /\ with_table \/ table = <<>>
            /\ restored' = AsDict(pairs)
            /\ restored_was' = Deep(AsDict(pairs), c1.heap)
            /\ CommitSnapshot(GamepadConfig_from_dict(c1, pairs), "restore_snapshot")
    /\ UNCHANGED <<snapshot, snapshot_was>>

\* 'gamepad bind b c' and 'gamepad unbind b' on the live store
LiveBind ==
    /\ snap_ops < MaxSnapOps
    /\ \E b \in {"A", "B"}, command \in StoreCommands \cup {NoCommand} :
        CommitSnapshot(GamepadConfig_set_button_command(Live, b, command),
                       "set_button_command")
    /\ UNCHANGED <<snapshot, snapshot_was, restored, restored_was>>

\* 'gamepad deadzone v' on the live store
LiveDeadzone ==
    /\ snap_ops < MaxSnapOps
    /\ \E v \in SetValues :
        CommitSnapshot(GamepadConfig_set_dead_zone(Live, v), "dead_zone")
    /\ UNCHANGED <<snapshot, snapshot_was, restored, restored_was>>

NextSnapshot ==
    \/ TakeSnapshot
    \/ RestoreFromSnapshot
    \/ LiveBind
    \/ LiveDeadzone

SpecSnapshot == InitSnapshot /\ [][NextSnapshot]_vars

\* ------------------------------------------------------- reading a stick

\* Raw values an axis reports (a signed 16-bit integer): the ends of the
\* range, the values around the default dead zone's threshold, the middle.
RawValues ==
    {-32768, -32767, -16384, -4916, -4915, -1, 0, 1, 4915, 4916, 16384,
     32766, 32767}
\* Legal dead zones, in hundredths.
DeadZones == {0, 1, DEFAULT_DEAD_ZONE_PCT, 30, 49, DEAD_ZONE_MAX_PCT}

\* A Controller is constructed over a config with a legal dead zone.
InitStick ==
    /\ running = FALSE
    /\ sdl_initialized = FALSE
    /\ controllers = <<>>
    /\ mode = VIEW
    /\ open = {}
    /\ attrs = {}
    /\ mappings = <<>>
    /\ pc = "idle"
    /\ op = ""
    /\ processed = <<>>
    /\ failed_cmd = FALSE
    /\ trace = <<>>
    /\ exc = ""
    /\ objs = <<>>
    /\ close_calls = <<>>
    /\ closes = <<>>
    /\ cfg = <<>>
    /\ cfg_attrs = <<>>
    /\ disk = <<>>
    /\ cfg_op = ""
    /\ cfg_arg = <<>>
    /\ cfg_exc = ""
    /\ cfg_ops = 0
    /\ stick_cfg \in [dead_zone : DeadZones, invert_y : BOOLEAN]
    /\ stick_raw = [x |-> 0, y |-> 0]
    /\ stick_out = <<_normalize_axis(0, 0), _normalize_axis(0, 0)>>
    /\ stick_op = ""
    /\ NoTrigger
    /\ NoScene
    /\ NoSnapshot

ReadStick(name, x, y) ==
    /\ stick_raw' = [x |-> x, y |-> y]
    /\ stick_out' = get_stick(x, y, stick_cfg.dead_zone, stick_cfg.invert_y)
    /\ stick_op' = name
    /\ UNCHANGED <<stick_cfg, managerVars, closeVars, storeVars, triggerVars, sceneVars,
                   snapshotVars>>

\* Controller.get_left_stick: the device reports x and y for the left stick
GetLeftStick ==
    \E x \in RawValues, y \in RawValues : ReadStick("get_left_stick", x, y)

\* Controller.get_right_stick: the device reports x and y for the right stick
GetRightStick ==
    \E x \in RawValues, y \in RawValues : ReadStick("get_right_stick", x, y)

NextStick ==
    \/ GetLeftStick
    \/ GetRightStick

SpecStick == InitStick /\ [][NextStick]_vars

\* ----------------------------------------------------- reading the triggers

\* A Controller is constructed over a config with a legal dead zone and
\* either setting of invert_y.
InitTrigger ==
    /\ running = FALSE
    /\ sdl_initialized = FALSE
    /\ controllers = <<>>
    /\ mode = VIEW
    /\ open = {}
    /\ attrs = {}
    /\ mappings = <<>>
    /\ pc = "idle"
    /\ op = ""
    /\ processed = <<>>
    /\ failed_cmd = FALSE
    /\ trace = <<>>
    /\ exc = ""
    /\ objs = <<>>
    /\ close_calls = <<>>
    /\ closes = <<>>
    /\ cfg = <<>>
    /\ cfg_attrs = <<>>
    /\ disk = <<>>
    /\ cfg_op = ""
    /\ cfg_arg = <<>>
    /\ cfg_exc = ""
    /\ cfg_ops = 0
    /\ stick_cfg \in [dead_zone : DeadZones, invert_y : BOOLEAN]
    /\ stick_raw = <<>>
    /\ stick_out = <<>>
    /\ stick_op = ""
    /\ trig_raw = [lt |-> 0, rt |-> 0]
    /\ trig_out = [left |-> get_trigger(0), right |-> get_trigger(0),
                   zoom |-> get_trigger(0)]
    /\ trig_op = ""
    /\ NoScene
    /\ NoSnapshot

\* GamepadManager._process_controller reads both triggers and computes the
\* zoom scalar: the device reports lt and rt
ReadTriggers ==
    \E lt \in RawValues, rt \in RawValues :
        /\ trig_raw' = [lt |-> lt, rt |-> rt]
        /\ trig_out' =
              [left |-> get_trigger(lt), right |-> get_trigger(rt),
               zoom |-> Scalars(Raw(0, 0, 0, 0, lt, rt), stick_cfg.dead_zone,
                                stick_cfg.invert_y).zoom]
        /\ trig_op' = "_process_controller"
        /\ UNCHANGED <<stick_cfg, stick_raw, stick_out, stick_op, managerVars,
                       closeVars, storeVars, sceneVars, snapshotVars>>

NextTrigger == ReadTriggers

SpecTrigger == InitTrigger /\ [][NextTrigger]_vars

\* ------------------------------------------------- the appliers on a scene

\* Lengths (field width, pixel size) are in thousandths of a scene unit,
\* sensitivities in hundredths; the other amounts are fractions num/den.

\* The models of the scene, in the order selection.models() lists them: A has
\* no parent, B is a child of the scene root, C is nested in A.
ModelOrder == <<"A", "B", "C">>
ModelNames == {ModelOrder[i] : i \in DOMAIN ModelOrder}
SceneModels ==
    [n \in ModelNames |->
        [parent |-> CASE n = "A" -> "none"
                      [] n = "B" -> "scene_root_model"
                      [] OTHER -> "A",
         position |-> 0]]

\* The scene, the config and the calls made so far, as an applier sees them.
Sc == [camera |-> camera, pixel_size |-> pixel_size, view_pose |-> view_pose,
       models |-> models, selection |-> selection, sens |-> sens,
       calls |-> <<>>, exc |-> ""]

SceneCall(k, target, amount) ==
    [k |-> k, target |-> target, num |-> amount.num, den |-> amount.den]
Call(sc, e) == [sc EXCEPT !.calls = Append(@, e)]

\* v * k * sensitivity, for a scalar v and a speed k
Scaled(v, k, sensitivity) == [num |-> v.num * k * sensitivity, den |-> v.den * 100]

\* view.rotate(axis, angle) and view.translate(shift): the view's pose is
\* kept as the number of transforms it has been given.
view_rotate(sc, axis, angle) ==
    Call([sc EXCEPT !.view_pose = @ + 1], SceneCall("view.rotate", axis, angle))
view_translate(sc, axis, shift) ==
    Call([sc EXCEPT !.view_pose = @ + 1], SceneCall("view.translate", axis, shift))

\* psize = view.pixel_size(); if psize is None: psize = 1.0
psize_of(sc) == IF sc.pixel_size = None THEN DEFAULT_PIXEL_SIZE ELSE sc.pixel_size

\* ViewAction._apply_rotation
ViewAction_apply_rotation(sc, rotate_x, rotate_y, sensitivity) ==
    LET s1 == IF Above(rotate_x)
              THEN view_rotate(sc, "camera up",
                               Scaled(rotate_x, ANGLE_SPEED, sensitivity))
              ELSE sc
    IN  IF Above(rotate_y)
        THEN view_rotate(s1, "camera right",
                         Scaled(rotate_y, ANGLE_SPEED, sensitivity))
        ELSE s1

\* ViewAction._apply_pan
ViewAction_apply_pan(sc, pan_x, pan_y, sensitivity) ==
    LET pan_speed == [num |-> sensitivity * PAN_SPEED * psize_of(sc), den |-> 100]
    IN  view_translate(sc, "camera xy", pan_speed)

\* delta = v * speed * sensitivity * psize, in thousandths (the inputs are
\* chosen so that the quotient is exact)
Delta(v, speed, sensitivity, psize) ==
    (v.num * speed * sensitivity * psize) \div (v.den * 100)

\* ViewAction._apply_zoom
ViewAction_apply_zoom(sc, zoom, sensitivity) ==
    LET psize == psize_of(sc)
        delta_z == Delta(zoom, ZOOM_SPEED, sensitivity, psize)
    IN  IF sc.camera.name = "orthographic"
        THEN [sc EXCEPT !.camera.field_width = Max(@ - delta_z, psize),
                        !.camera.redraw_needed = TRUE]
        ELSE view_translate(sc, "camera z", [num |-> delta_z, den |-> 1000])

\* ViewAction.apply, had it lacked the idle check
ViewAction_apply_scene_no_idle_skip(sc, s) ==
    IF "view_sensitivity" \notin DOMAIN sc.sens
    THEN [sc EXCEPT !.exc = "AttributeError"]
    ELSE LET sensitivity == sc.sens["view_sensitivity"]
             s1 == IF Above(s.right_x) \/ Above(s.right_y)
                   THEN ViewAction_apply_rotation(sc, s.right_x, s.right_y, sensitivity)
                   ELSE sc
             s2 == IF Above(s.left_x) \/ Above(s.left_y)
                   THEN ViewAction_apply_pan(s1, s.left_x, s.left_y, sensitivity)
                   ELSE s1
         IN  IF Above(s.zoom)
             THEN ViewAction_apply_zoom(s2, s.zoom, sensitivity)
             ELSE s2

\* ViewAction.apply, on the scene
ViewAction_apply_scene(sc, s) ==
    IF AllBelow(s) THEN sc
    ELSE IF "view_sensitivity" \notin DOMAIN sc.sens
    THEN [sc EXCEPT !.exc = "AttributeError"]
    ELSE LET sensitivity == sc.sens["view_sensitivity"]
             s1 == IF Above(s.right_x) \/ Above(s.right_y)
                   THEN ViewAction_apply_rotation(sc, s.right_x, s.right_y, sensitivity)
                   ELSE sc
             s2 == IF Above(s.left_x) \/ Above(s.left_y)
                   THEN ViewAction_apply_pan(s1, s.left_x, s.left_y, sensitivity)
                   ELSE s1
         IN  IF Above(s.zoom)
             THEN ViewAction_apply_zoom(s2, s.zoom, sensitivity)
             ELSE s2

Eligible(sc, n) ==
    n \in sc.selection /\ sc.models[n].parent \in {"none", "scene_root_model"}

\* _get_selected_models, had it taken every selected model
ModelAction_get_selected_models_any_parent(sc) ==
    SelectSeq(ModelOrder, LAMBDA n : n \in sc.selection)

\* ModelAction._get_selected_models
ModelAction_get_selected_models(sc) ==
    SelectSeq(ModelOrder, LAMBDA n : Eligible(sc, n))

\* ModelAction._apply_rotation: a model's position is kept as the number of
\* transforms composed into it.
RECURSIVE ModelAction_apply_rotation(_, _, _, _, _)
ModelAction_apply_rotation(sc, ms, rotate_x, rotate_y, sensitivity) ==
    IF ms = <<>> THEN sc
    ELSE LET model == Head(ms)
             s1 == IF Above(rotate_x)
                   THEN Call(sc, SceneCall("rotation", "camera up",
                                           Scaled(rotate_x, ANGLE_SPEED, sensitivity)))
                   ELSE sc
             s2 == IF Above(rotate_y)
                   THEN Call(s1, SceneCall("rotation", "camera right",
                                           Scaled(rotate_y, ANGLE_SPEED, sensitivity)))
                   ELSE s1
             n == Len(s2.calls) - Len(sc.calls)
             s3 == Call([s2 EXCEPT !.models[model].position = @ + n],
                        SceneCall("model.position", model, [num |-> n, den |-> 1]))
         IN  ModelAction_apply_rotation(s3, Tail(ms), rotate_x, rotate_y, sensitivity)

\* for model in models: model.position = trans * model.position
RECURSIVE translate_each(_, _)
translate_each(sc, ms) ==
    IF ms = <<>> THEN sc
    ELSE translate_each(
             Call([sc EXCEPT !.models[Head(ms)].position = @ + 1],
                  SceneCall("model.position", Head(ms), [num |-> 1, den |-> 1])),
             Tail(ms))

\* ModelAction._apply_translation_xy
ModelAction_apply_translation_xy(sc, ms, translate_x, translate_y, sensitivity) ==
    LET trans_speed == [num |-> sensitivity * TRANS_SPEED * psize_of(sc), den |-> 100]
    IN  translate_each(Call(sc, SceneCall("translation", "camera xy", trans_speed)), ms)

\* _apply_translation_z, had it moved the view along the camera's axis as
\* the zoom of VIEW mode does
ModelAction_apply_translation_z_moves_view(sc, ms, translate_z, sensitivity) ==
    LET shift == [num |-> Delta(translate_z, TRANS_Z_SPEED, sensitivity, psize_of(sc)),
                  den |-> 1000]
    IN  view_translate(sc, "camera z", shift)

\* ModelAction._apply_translation_z
ModelAction_apply_translation_z(sc, ms, translate_z, sensitivity) ==
    LET shift == [num |-> Delta(translate_z, TRANS_Z_SPEED, sensitivity, psize_of(sc)),
                  den |-> 1000]
    IN  translate_each(Call(sc, SceneCall("translation", "camera z", shift)), ms)

\* ModelAction.apply, on the scene
ModelAction_apply_scene(sc, s) ==
    LET ms == ModelAction_get_selected_models(sc)
    IN  IF ms = <<>> THEN sc
        ELSE IF AllBelow(s) THEN sc
        ELSE IF "model_sensitivity" \notin DOMAIN sc.sens
        THEN [sc EXCEPT !.exc = "AttributeError"]
        ELSE LET sensitivity == sc.sens["model_sensitivity"]
                 s1 == IF Above(s.right_x) \/ Above(s.right_y)
                       THEN ModelAction_apply_rotation(sc, ms, s.right_x, s.right_y,
                                                       sensitivity)
                       ELSE sc
                 s2 == IF Above(s.left_x) \/ Above(s.left_y)
                       THEN ModelAction_apply_translation_xy(s1, ms, s.left_x,
                                                             s.left_y, sensitivity)
                       ELSE s1
             IN  IF Above(s.zoom)
                 THEN ModelAction_apply_translation_z(s2, ms, s.zoom, sensitivity)
                 ELSE s2

\* The scalars an applier is given.
Zero == [num |-> 0, den |-> 1]
Tiny == [num |-> 1, den |-> 2000]
MinusTiny == [num |-> -1, den |-> 2000]
Half == [num |-> 1, den |-> 2]
One == [num |-> 1, den |-> 1]
MinusOne == [num |-> -1, den |-> 1]
Sample(lx, ly, rx, ry, z) ==
    [left_x |-> lx, left_y |-> ly, right_x |-> rx, right_y |-> ry, zoom |-> z]

\* The samples given to the appliers: at rest, drifting below the epsilon,
\* the right stick on both axes, on one axis, the left stick, the triggers,
\* everything at once. (A scalar that equals the epsilon exactly is not
\* among them: no raw axis value normalizes to it.)
InputSamples ==
    {Sample(Zero, Zero, Zero, Zero, Zero),
     Sample(Tiny, MinusTiny, Zero, Tiny, MinusTiny),
     Sample(Zero, Zero, One, MinusOne, Zero),
     Sample(Zero, Tiny, One, Tiny, Zero),
     Sample(Tiny, Zero, MinusTiny, MinusOne, Zero),
     Sample(One, Half, Zero, Zero, Tiny),
     Sample(Zero, Zero, Zero, Zero, One),
     Sample(Zero, Zero, Zero, MinusTiny, MinusOne),
     Sample(Half, One, One, One, Half)}

\* The values 'gamepad sensitivity' is given.
SensValues == {100, 200}
\* The field widths and pixel sizes the host's view starts with.
FieldWidths == {200, 10000}
PixelSizes == {None, 100}
\* The selections the host's scene starts with: nothing, the nested model
\* only, a top-level model with its child, every model.
Selections == {{}, {"C"}, {"A", "C"}, {"A", "B", "C"}}

CommitScene(sc, name, s) ==
    /\ camera' = sc.camera
    /\ view_pose' = sc.view_pose
    /\ models' = sc.models
    /\ scene_calls' = sc.calls
    /\ apply_exc' = sc.exc
    /\ apply_op' = name
    /\ apply_args' = s
    /\ applies' = applies + 1
    /\ UNCHANGED <<pixel_size, selection, sens, managerVars, closeVars, storeVars,
                   stickVars, triggerVars, snapshotVars>>

\* The appliers are constructed over a fresh config; the host's scene holds
\* a camera, the three models and a selection.
InitApply ==
    /\ running = FALSE
    /\ sdl_initialized = FALSE
    /\ controllers = <<>>
    /\ mode = VIEW
    /\ open = {}
    /\ attrs = {}
    /\ mappings = <<>>
    /\ pc = "idle"
    /\ op = ""
    /\ processed = <<>>
    /\ failed_cmd = FALSE
    /\ trace = <<>>
    /\ exc = ""
    /\ objs = <<>>
    /\ close_calls = <<>>
    /\ closes = <<>>
    /\ cfg = <<>>
    /\ cfg_attrs = <<>>
    /\ disk = <<>>
    /\ cfg_op = ""
    /\ cfg_arg = <<>>
    /\ cfg_exc = ""
    /\ cfg_ops = 0
    /\ NoStick
    /\ NoTrigger
    /\ pixel_size \in PixelSizes
    /\ camera \in [name : {"orthographic", "perspective"},
                    field_width : {w \in FieldWidths :
                                      w >= (IF pixel_size = None THEN DEFAULT_PIXEL_SIZE
                                            ELSE pixel_size)},
                    redraw_needed : {FALSE}]
    /\ view_pose = 0
    /\ models = SceneModels
    /\ selection \in Selections
    /\ sens = <<>>
    /\ scene_calls = <<>>
    /\ apply_op = ""
    /\ apply_args = Sample(Zero, Zero, Zero, Zero, Zero)
    /\ apply_exc = ""
    /\ applies = 0
    /\ NoSnapshot

\* _process_controller in VIEW mode: view_action.apply(...)
ViewApply ==
    /\ applies < MaxApplies
    /\ \E s \in InputSamples :
        CommitScene(ViewAction_apply_scene(Sc, s), "ViewAction.apply", s)

\* _process_controller in MODEL mode: model_action.apply(...)
ModelApply ==
    /\ applies < MaxApplies
    /\ \E s \in InputSamples :
        CommitScene(ModelAction_apply_scene(Sc, s), "ModelAction.apply", s)

\* 'gamepad sensitivity <view|model> v' sets the attribute on the config
ApplierSensitivity ==
    /\ \E target \in {"view", "model"}, v \in SensValues :
        sens' = store_gamepad_sensitivity(Store(<<>>, sens, ""), target, v).attrs
    /\ UNCHANGED <<camera, pixel_size, view_pose, models, selection, scene_calls,
                   apply_op, apply_args, apply_exc, applies, managerVars,
                   closeVars, storeVars, stickVars, triggerVars, snapshotVars>>

NextApply ==
    \/ ViewApply
    \/ ModelApply
    \/ ApplierSensitivity

SpecApply == InitApply /\ [][NextApply]_vars

\* ------------------------------------------------------------- properties

Has(tr, k) == \E i \in DOMAIN tr : tr[i].k = k
Count(tr, k) == Cardinality({i \in DOMAIN tr : tr[i].k = k})
Ids(d) == [i \in DOMAIN d |-> d[i].instance_id]
Range(f) == {f[i] : i \in DOMAIN f}
Times(f, x) == Cardinality({i \in DOMAIN f : f[i] = x})
Flip(md) == IF md = VIEW THEN MODEL ELSE VIEW

EventTypes ==
    {"SDL_CONTROLLERDEVICEADDED", "SDL_CONTROLLERDEVICEREMOVED",
     "SDL_CONTROLLERBUTTONDOWN"}

\* The last step handled an event polled by update().
EventStep(tr) == tr # <<>> /\ tr[1].k \in EventTypes
StartPress(tr) ==
    tr # <<>> /\ tr[1] = Entry("SDL_CONTROLLERBUTTONDOWN", SDL_CONTROLLER_BUTTON_START)
\* The last step read a controller's axes.
AnalogStep(tr) == tr # <<>> /\ tr[1].k = "SDL_GameControllerGetAxis"

\* update(), called while running, has returned or raised.
UpdateRan == pc = "done" /\ op = "update" /\ trace[1].k # "update"

\* C1: in an update() made while running, every pending event is handled
\* before any controller is read, so a controller an event of this tick added
\* is in the registry the analog pass walks, a controller an event of this
\* tick removed is not, and the analog pass reads exactly the controllers the
\* event phase left in the registry.
C1_EventsBeforeAnalog ==
    /\ EventStep(trace) => processed = <<>>
    /\ AnalogStep(trace) => pc \in {"analog", "done"}
    /\ (EventStep(trace) /\ trace[1].k = "SDL_CONTROLLERDEVICEADDED"
            /\ trace[2].a # None)
          => SDL_JoystickInstanceID(trace[1].a) \in Keys(controllers)
    /\ (EventStep(trace) /\ trace[1].k = "SDL_CONTROLLERDEVICEREMOVED")
          => trace[1].a \notin Keys(controllers)
    /\ UpdateRan => processed = Ids(controllers)

\* C2: in an update() made while running, each controller of the registry is
\* processed exactly once, and each processing calls exactly one applier: the
\* view applier in VIEW mode, the model applier otherwise.
C2_EachControllerOnce ==
    /\ UpdateRan => \A id \in Keys(controllers) : Times(processed, id) = 1
    /\ AnalogStep(trace) =>
          /\ Count(trace, "ViewAction.apply") + Count(trace, "ModelAction.apply") = 1
          /\ Has(trace, "ViewAction.apply") <=> mode = VIEW
          /\ trace[2].a = processed[Len(processed)]

\* C3 (as the spec states it): the mode starts as VIEW, a START press event
\* flips it exactly once, and a step of update() that handles no START press
\* leaves it unchanged.
C3_FlipOnlyOnPress ==
    /\ mode = VIEW
    /\ [][op' = "update" =>
            IF StartPress(trace')
            THEN mode' = Flip(mode) /\ Count(trace', "toggle_mode") = 1
            ELSE mode' = mode]_vars

\* C3: the mode starts as VIEW, a START press event flips it exactly once,
\* and a step of update() that handles no START press and runs no bound
\* 'gamepad mode' command leaves it unchanged.
C3_FlipPerPress ==
    /\ mode = VIEW
    /\ [][op' = "update" =>
            IF StartPress(trace')
            THEN mode' = Flip(mode) /\ Count(trace', "toggle_mode") = 1
            ELSE Has(trace', "gamepad_mode") \/ mode' = mode]_vars

\* A START press has flipped the mode back from MODEL to VIEW.
C3_Witness ==
    StartPress(trace) /\ pc = "events" /\ mode = VIEW /\ Has(trace, "toggle_mode")

\* C4 (as the spec states it): the mode changes only in a step that handles a
\* START press event.
C4_OnlyPressWrites == [][mode' # mode => StartPress(trace')]_vars

\* C4: the mode changes only in a step that handles a START press event, in
\* the tool's Toggle Mode operation, or in a step that runs the 'gamepad mode'
\* command (typed, or bound to a button); start, stop, the sensitivity and
\* binding commands, device events and the analog pass leave it alone.
C4_ModeWriters ==
    [][mode' # mode =>
          \/ StartPress(trace')
          \/ op' = "_toggle_mode" /\ Has(trace', "toggle_mode")
          \/ Has(trace', "gamepad_mode")]_vars

\* The typed 'gamepad mode' command has set the mode to MODEL.
C4_Witness == pc = "done" /\ op = "gamepad_mode" /\ mode = MODEL

\* C5: when processing one controller raises during the analog pass of
\* update(), every other controller of the registry is still processed in
\* that call.
C5_FailureIsolated ==
    (pc = "done" /\ op = "update" /\ exc # "")
        => Keys(controllers) \subseteq Range(processed)

\* C6: a bound command that fails is caught in the dispatch loop: the event
\* loop goes on, and the analog pass of that tick processes every controller
\* of the registry.
C6_CommandFailureContained ==
    /\ Has(trace, "logger.warning") => exc = "" /\ pc = "events"
    /\ (UpdateRan /\ failed_cmd) => Keys(controllers) \subseteq Range(processed)

\* C7: every entry of the registry holds a handle that has not been released,
\* and the analog pass never reads a released handle.
C7_EntriesHoldOpenHandles ==
    /\ \A i \in DOMAIN controllers :
          controllers[i].sdl_controller # None /\ controllers[i].sdl_controller \in open
    /\ AnalogStep(trace) => trace[1].a # None /\ trace[1].a \in open

\* A device-removed event released a handle while another controller stays
\* registered.
C7_Witness ==
    /\ EventStep(trace) /\ trace[1].k = "SDL_CONTROLLERDEVICEREMOVED"
    /\ Has(trace, "SDL_GameControllerClose") /\ controllers # <<>>

\* C8: handling a device-removed event whose instance id is not in the
\* registry changes nothing: the registry and the open handles stay as they
\* are and the step makes no call at all (no close, no notification); so a
\* second removal event for an id adds nothing to the first.
C8_AbsentRemovalNoOp ==
    [][(pc = "events" /\ EventStep(trace')
            /\ trace'[1].k = "SDL_CONTROLLERDEVICEREMOVED"
            /\ trace'[1].a \notin Keys(controllers))
          => /\ controllers' = controllers
             /\ open' = open
             /\ Len(trace') = 1
             /\ exc' = ""]_vars

\* A removal event for an absent id was handled while a controller is
\* registered.
C8_Witness ==
    /\ pc = "events" /\ Len(trace) = 1
    /\ trace[1].k = "SDL_CONTROLLERDEVICEREMOVED"
    /\ controllers # <<>>

FailedOpen(tr) == \E i \in DOMAIN tr : tr[i] = Entry("SDL_GameControllerOpen", None)
Opened(tr) ==
    Cardinality({i \in DOMAIN tr :
                    tr[i].k = "SDL_GameControllerOpen" /\ tr[i].a # None})

\* C9: when the open returns no handle, the registry and the open handles are
\* left as they are, no notification is emitted, nothing is raised, the open
\* is called once, and the event loop goes on; start() likewise notifies once
\* per device that opened and raises nothing for one that did not.
C9_FailedOpenSkipped ==
    [][/\ (pc = "events" /\ EventStep(trace')
              /\ trace'[1].k = "SDL_CONTROLLERDEVICEADDED"
              /\ trace'[2] = Entry("SDL_GameControllerOpen", None))
            => /\ controllers' = controllers
               /\ open' = open
               /\ ~Has(trace', "on_status_change")
               /\ Count(trace', "SDL_GameControllerOpen") = 1
               /\ exc' = ""
               /\ pc' = "events"
       /\ (op' = "start" /\ FailedOpen(trace'))
            => /\ Count(trace', "on_status_change") = Opened(trace')
               /\ Cardinality(open') = Cardinality(open) + Opened(trace')
               /\ exc' = ""]_vars

\* An open failed in the event loop while a controller is registered.
C9_Witness ==
    /\ pc = "events" /\ Len(trace) = 2
    /\ trace[2] = Entry("SDL_GameControllerOpen", None)
    /\ controllers # <<>>

\* C10: close() releases the handle exactly once: the first call releases it
\* and clears it, and further calls release nothing.
C10_CloseOnce ==
    \A o \in DOMAIN objs :
        /\ closes[o] = (IF close_calls[o] = 0 THEN 0 ELSE 1)
        /\ (close_calls[o] > 0 => objs[o].sdl_controller = None)
        /\ (close_calls[o] = 0 => objs[o].sdl_controller # None)

\* An object has been closed three times.
C10_Witness ==
    \E o \in DOMAIN objs : close_calls[o] >= 3 /\ closes[o] = 1

\* The handles the entries of a registry hold.
HandlesOf(d) == {d[i].sdl_controller : i \in DOMAIN d}
Closed(tr, h) ==
    Cardinality({i \in DOMAIN tr : tr[i] = Entry("SDL_GameControllerClose", h)})

\* C11: a step that runs stop() (the command, a button bound to it, or the
\* tool's delete()) releases the handle of each controller of the registry
\* exactly once and nothing else, and leaves the registry empty and the
\* manager not running; on an empty registry it releases nothing.
C11_StopReleasesAll ==
    [][Has(trace', "stop") =>
          /\ controllers' = <<>>
          /\ running' = FALSE /\ sdl_initialized' = FALSE
          /\ \A h \in HandlesOf(controllers) : Closed(trace', h) = 1
          /\ Count(trace', "SDL_GameControllerClose") = Len(controllers)
          /\ open' = open \ HandlesOf(controllers)]_vars

\* delete() stopped a manager that held two controllers.
C11_Witness ==
    /\ pc = "deleted" /\ Count(trace, "SDL_GameControllerClose") = 2
    /\ controllers = <<>> /\ open = {}

InitFailed(tr) == \E i \in DOMAIN tr : tr[i] = Entry("SDL_Init", -1)

\* C12: when SDL_Init fails, start() raises RuntimeError to its caller and
\* leaves the manager as it was: not running, not initialized, the registry
\* (empty after construction) and the open handles untouched; the host goes
\* on, and an update() on a manager that is not running returns at once
\* without polling an event or reading a controller.
C12_InitFailure ==
    [][/\ (op' = "start" /\ InitFailed(trace'))
            => /\ exc' = "RuntimeError"
               /\ running' = FALSE /\ sdl_initialized' = FALSE
               /\ controllers' = controllers /\ open' = open
               /\ (controllers = <<>> => controllers' = <<>>)
               /\ ~Has(trace', "SDL_GameControllerOpen")
               /\ pc' = "done"
       /\ (op' = "update" /\ pc = "idle" /\ ~running)
            => /\ trace' = <<Entry("update", None)>>
               /\ pc' = "done" /\ exc' = ""
               /\ controllers' = controllers /\ open' = open
               /\ mode' = mode /\ running' = FALSE]_vars

\* start() on the freshly constructed manager failed in SDL_Init.
C12_Witness ==
    /\ pc = "done" /\ op = "start" /\ exc = "RuntimeError"
    /\ ~running /\ ~sdl_initialized /\ controllers = <<>> /\ open = {}

SensitivityKeys == {"translation_sensitivity", "rotation_sensitivity", "zoom_sensitivity"}
InSensitivityRange(n) == SENSITIVITY_MIN_PCT <= n /\ n <= SENSITIVITY_MAX_PCT

\* C13: whatever wrote the configuration (the setters, load() of the
\* persisted document, from_dict() of a snapshot), the stored dead zone lies
\* in [0, 0.5] and the stored sensitivities in [0.1, 5.0].
C13_StoredInRange ==
    StoreExists =>
        /\ 0 <= cfg["dead_zone"].n /\ cfg["dead_zone"].n <= DEAD_ZONE_MAX_PCT
        /\ \A k \in SensitivityKeys : InSensitivityRange(cfg[k].n)

\* C14: after 'gamepad sensitivity <view|model> v' or Apply in the dialog,
\* the sensitivity an applier reads lies in [0.1, 5.0], and is the nearest
\* boundary when v is out of range.
C14_AppliedSensitivityInRange ==
    /\ \A a \in DOMAIN cfg_attrs : InSensitivityRange(cfg_attrs[a])
    /\ cfg_op = "gamepad_sensitivity" =>
          cfg_attrs[cfg_arg.name \o "_sensitivity"] =
              (IF cfg_arg.n < SENSITIVITY_MIN_PCT THEN SENSITIVITY_MIN_PCT
               ELSE IF cfg_arg.n > SENSITIVITY_MAX_PCT THEN SENSITIVITY_MAX_PCT
               ELSE cfg_arg.n)

\* The legal value nearest to v for the field k.
Nearest(k, v) ==
    LET lo == IF k = "dead_zone" THEN 0 ELSE SENSITIVITY_MIN_PCT
        hi == IF k = "dead_zone" THEN DEAD_ZONE_MAX_PCT ELSE SENSITIVITY_MAX_PCT
    IN  IF v < lo THEN lo ELSE IF v > hi THEN hi ELSE v

\* C15: a setter stores the legal value nearest to the one it is given and
\* touches no other key, and setting a field to the value it was last set to
\* leaves the configuration as it is: set(v) then set(v) is set(v).
C15_ClampIdempotent ==
    [][cfg_op' = "setter" =>
          /\ cfg'[cfg_arg'.name] = Num(Nearest(cfg_arg'.name, cfg_arg'.n))
          /\ DOMAIN cfg' = DOMAIN cfg
          /\ \A k \in DOMAIN cfg \ {cfg_arg'.name} : cfg'[k] = cfg[k]
          /\ (cfg_op = "setter" /\ cfg_arg = cfg_arg') => cfg' = cfg]_vars

\* A field was set twice and holds the upper boundary for a value above it.
C15_Witness ==
    /\ cfg_op = "setter" /\ cfg_ops >= 2 /\ cfg_arg.n > SENSITIVITY_MAX_PCT
    /\ cfg[cfg_arg.name] = Num(Nearest(cfg_arg.name, cfg_arg.n))
    /\ cfg[cfg_arg.name].n < cfg_arg.n

\* C16: a store constructed over the document a store saved holds every
\* field that store held: its configuration and the view and model
\* sensitivities set on it.
C16_RoundTrip ==
    [][(cfg_op' = "__init__" /\ StoreExists /\ disk = json_dump(cfg))
          => /\ cfg' = cfg
             /\ cfg_attrs' = cfg_attrs
             /\ cfg_exc' = ""]_vars

PairKeys(pairs) == {pairs[i][1] : i \in DOMAIN pairs}

\* C17: constructing a store (load()) raises nothing; over a document that
\* is missing, unreadable, malformed or not a JSON object the configuration
\* is the defaults; over a JSON object every key absent from it keeps its
\* default.
C17_LoadTotal ==
    cfg_op = "__init__" =>
        /\ cfg_exc = ""
        /\ disk.kind # "object" => cfg = DEFAULT_CONFIG
        /\ disk.kind = "object" =>
              \A k \in DOMAIN DEFAULT_CONFIG \ PairKeys(disk.pairs) :
                  cfg[k] = DEFAULT_CONFIG[k]

\* C18: after set_button_command(b, c) the command of b is c, or none when c
\* is none (whether or not b was mapped); the commands of the other buttons
\* and every other key of the configuration are as before, and nothing is
\* raised. The table is a dict keyed by button name.
C18_ButtonTable ==
    [][cfg_op' = "set_button_command" =>
          /\ store_get_button_command(Store(cfg', cfg_attrs', ""), cfg_arg'.n)
                = cfg_arg'.cmd
          /\ \A o \in StoreButtons \ {cfg_arg'.n} :
                store_get_button_command(Store(cfg', cfg_attrs', ""), o)
                    = store_get_button_command(S, o)
          /\ \A k \in DOMAIN cfg \ {"button_mappings"} :
                k \in DOMAIN cfg' /\ cfg'[k] = cfg[k]
          /\ cfg_exc' = ""]_vars

\* A mapping was removed while another button stays mapped.
C18_Witness ==
    /\ cfg_op = "set_button_command" /\ cfg_arg.cmd = NoCommand
    /\ DOMAIN Table(S).mappings # {}
    /\ cfg_arg.name \notin DOMAIN Table(S).mappings

\* a/b <= c/d for b, d > 0, by the integer parts and then the remainders
\* (the products of a cross-multiplication do not fit the integers here).
RECURSIVE FracLeq(_, _, _, _)
FracLeq(a, b, c, d) ==
    IF a \div b # c \div d THEN a \div b < c \div d
    ELSE IF a % b = 0 THEN TRUE
    ELSE IF c % d = 0 THEN FALSE
    ELSE FracLeq(d, c % d, b, a % b)
Leq(f, g) == FracLeq(f.num, f.den, g.num, g.den)
Same(f, g) == Leq(f, g) /\ Leq(g, f)
Frac(n, d) == [num |-> n, den |-> d]
Sign(v) == IF v > 0 THEN 1 ELSE -1

\* C19: for a dead zone d below 0.5 and normalized = raw / 32767, the x
\* output of a stick read is 0 when |normalized| < d and when |normalized| =
\* d, is +1 or -1 when |normalized| = 1, and is otherwise
\* sign * (|normalized| - d) / (1 - d); it is non-decreasing in raw; and
\* with d = 0.15 and raw = 16384 it is about 0.4118.
C19_DeadZoneNormalization ==
    (stick_op # "" /\ stick_cfg.dead_zone < DEAD_ZONE_MAX_PCT) =>
        LET d == stick_cfg.dead_zone
            v == stick_raw.x
            o == stick_out[1]
        IN  /\ o.den > 0
            /\ 100 * Abs(v) < d * AXIS_MAX => o.num = 0
            /\ 100 * Abs(v) = d * AXIS_MAX => o.num = 0
            /\ Abs(v) = AXIS_MAX => o.num = Sign(v) * o.den
            /\ 100 * Abs(v) >= d * AXIS_MAX =>
                  Same(o, Frac(Sign(v) * (100 * Abs(v) - d * AXIS_MAX),
                               AXIS_MAX * (100 - d)))
            /\ \A w \in RawValues : w >= v => Leq(o, _normalize_axis(w, d))
            /\ (d = DEFAULT_DEAD_ZONE_PCT /\ v = 16384) =>
                  /\ ~Leq(o, Frac(4117, 10000))
                  /\ ~Leq(Frac(4119, 10000), o)

\* A raw value just above the threshold of the default dead zone was read
\* and gave a small positive output.
C19_Witness ==
    /\ stick_op = "get_left_stick" /\ stick_cfg.dead_zone = DEFAULT_DEAD_ZONE_PCT
    /\ stick_raw.x = 4916
    /\ stick_out[1].num > 0 /\ ~Leq(Frac(1, 1000), stick_out[1])

\* C20: for every raw value in -32768..32767, every legal dead zone and
\* either setting of invert_y, both outputs of a stick read lie in [-1, 1].
C20_StickInUnitRange ==
    stick_op # "" =>
        \A i \in {1, 2} :
            /\ -stick_out[i].den <= stick_out[i].num
            /\ stick_out[i].num <= stick_out[i].den

\* C21: a trigger reading is max(0, raw) / 32767 whatever the dead zone and
\* invert_y of the config are, and lies in [0, 1]; the zoom scalar is the
\* right reading minus the left one and lies in [-1, 1].
C21_TriggerRawOnly ==
    trig_op # "" =>
        /\ Same(trig_out.left, Frac(Max(0, trig_raw.lt), AXIS_MAX))
        /\ Same(trig_out.right, Frac(Max(0, trig_raw.rt), AXIS_MAX))
        /\ \A t \in {trig_out.left, trig_out.right} :
              t.den > 0 /\ 0 <= t.num /\ t.num <= t.den
        /\ Same(trig_out.zoom,
                Frac(Max(0, trig_raw.rt) - Max(0, trig_raw.lt), AXIS_MAX))
        /\ trig_out.zoom.den > 0
        /\ -trig_out.zoom.den <= trig_out.zoom.num
        /\ trig_out.zoom.num <= trig_out.zoom.den

\* With the widest dead zone and invert_y set, a fully pressed left trigger
\* and a released right trigger were read: the zoom scalar is -1.
C21_Witness ==
    /\ trig_op # "" /\ stick_cfg.dead_zone = DEAD_ZONE_MAX_PCT /\ stick_cfg.invert_y
    /\ trig_raw.lt = AXIS_MAX /\ trig_raw.rt = 0
    /\ trig_out.left.num = trig_out.left.den
    /\ trig_out.zoom.num = -trig_out.zoom.den

\* The last step was a call of an applier.
Applied(name) == applies' = applies + 1 /\ apply_op' = name
Idle(s) == \A v \in {s.left_x, s.left_y, s.right_x, s.right_y, s.zoom} : Below(v)
Nested(n) == models[n].parent \notin {"none", "scene_root_model"}
SceneUntouched ==
    /\ camera' = camera
    /\ view_pose' = view_pose
    /\ models' = models
    /\ scene_calls' = <<>>

\* C22: when all five scalars are below the epsilon, ViewAction.apply makes
\* no rotate or translate call and leaves the field width and the redraw
\* flag alone, ModelAction.apply changes no model's position, and the call
\* returns: the scene after the call is the scene before it.
C22_IdleSkip ==
    [][((Applied("ViewAction.apply") \/ Applied("ModelAction.apply"))
            /\ Idle(apply_args'))
          => SceneUntouched /\ apply_exc' = ""]_vars

\* ModelAction.apply was given a sample drifting below the epsilon, with a
\* top-level model selected that an earlier call had moved.
C22_Witness ==
    /\ apply_op = "ModelAction.apply" /\ applies = 2
    /\ Idle(apply_args) /\ apply_args.left_x.num # 0
    /\ "A" \in selection /\ models["A"].position > 0
    /\ "model_sensitivity" \in DOMAIN sens

\* C23: ModelAction never changes the position of a selected model whose
\* parent is a node other than the scene root, and changes the position of
\* every selected model with no parent or with the scene root as parent
\* whenever the sample is not idle.
C23_EligibilityFilter ==
    [][Applied("ModelAction.apply") =>
          \A n \in ModelNames :
              /\ Nested(n) => models'[n] = models[n]
              /\ (n \in selection /\ ~Nested(n) /\ ~Idle(apply_args'))
                    => models'[n].position # models[n].position]_vars

\* C24: when the selection holds no top-level model (it is empty or holds
\* nested models only), ModelAction.apply changes nothing whatever the five
\* scalars are: no model position, no view or camera state, and it returns.
C24_NoEligibleNoOp ==
    [][(Applied("ModelAction.apply") /\ \A n \in selection : Nested(n))
          => SceneUntouched /\ apply_exc' = ""]_vars

\* ModelAction.apply was given every scalar deflected with only the nested
\* model selected and the model sensitivity set.
C24_Witness ==
    /\ apply_op = "ModelAction.apply" /\ selection = {"C"}
    /\ apply_args = Sample(Half, One, One, One, Half)
    /\ "model_sensitivity" \in DOMAIN sens

PSize == IF pixel_size = None THEN DEFAULT_PIXEL_SIZE ELSE pixel_size

\* C25: for an orthographic camera a zoom input sets field_width to
\* max(field_width - zoom * 15 * sensitivity * pixel_size, pixel_size) and
\* marks the view for redraw; the field width is never below pixel_size;
\* and from field_width 10 with pixel_size 0.1, zoom -1 and sensitivity 1
\* the new field width is 11.5.
C25_OrthographicZoom ==
    /\ [](camera.field_width >= PSize)
    /\ [][(Applied("ViewAction.apply") /\ camera.name = "orthographic"
               /\ Above(apply_args'.zoom))
             => /\ "view_sensitivity" \in DOMAIN sens
                /\ camera'.field_width =
                      Max(camera.field_width
                            - (apply_args'.zoom.num * 15 * sens["view_sensitivity"] * PSize)
                                  \div (apply_args'.zoom.den * 100),
                          PSize)
                /\ camera'.redraw_needed
                /\ (camera.field_width = 10000 /\ PSize = 100
                       /\ apply_args'.zoom = MinusOne /\ sens["view_sensitivity"] = 100)
                      => camera'.field_width = 11500]_vars

Rotations(calls) == SelectSeq(calls, LAMBDA e : e.k = "view.rotate")

\* C26: in one ViewAction.apply, when both components of the right stick
\* exceed the epsilon exactly two rotations are applied to the view, about
\* the camera's up-axis first and about its right-axis second; when one
\* component exceeds it exactly one is applied, and when neither does, none.
C26_RotationOrder ==
    [][Applied("ViewAction.apply") =>
          LET rots == Rotations(scene_calls')
              h == Above(apply_args'.right_x)
              v == Above(apply_args'.right_y)
          IN  /\ (h /\ v) => /\ Len(rots) = 2
                              /\ rots[1].target = "camera up"
                              /\ rots[2].target = "camera right"
              /\ (h /\ ~v) => Len(rots) = 1 /\ rots[1].target = "camera up"
              /\ (~h /\ v) => Len(rots) = 1 /\ rots[1].target = "camera right"
              /\ (~h /\ ~v) => Len(rots) = 0]_vars

\* C27: a button-press event has exactly one of three outcomes: for START,
\* one mode toggle and no command run, whether or not the mapping table
\* holds an entry named START; for another button with a mapped command,
\* one run of that command string and no toggle; otherwise nothing at all.
C27_PressOutcome ==
    [][(pc = "events" /\ EventStep(trace')
            /\ trace'[1].k = "SDL_CONTROLLERBUTTONDOWN")
          => LET button == trace'[1].a
                 name == button_to_name(button)
             IN  IF button = SDL_CONTROLLER_BUTTON_START
                 THEN /\ Count(trace', "toggle_mode") = 1
                      /\ Count(trace', "run") = 0
                      /\ mode' = Flip(mode)
                      /\ Len(trace') = 2
                 ELSE IF name \in DOMAIN mappings
                 THEN /\ Count(trace', "run") = 1
                      /\ trace'[2] = CmdEntry("run", mappings[name])
                      /\ Count(trace', "toggle_mode") = 0
                 ELSE /\ Len(trace') = 1
                      /\ mode' = mode /\ running' = running
                      /\ mappings' = mappings /\ controllers' = controllers]_vars

\* START was pressed while the mapping table held a command under the name
\* START: the mode was toggled and the command was not run.
C27_Witness ==
    /\ StartPress(trace) /\ pc = "events"
    /\ "START" \in DOMAIN mappings /\ "A" \in DOMAIN mappings
    /\ Count(trace, "toggle_mode") = 1 /\ Count(trace, "run") = 0
    /\ mode = MODEL

\* C28: a device-added event notifies the listener once when the open
\* succeeded and not otherwise, a device-removed event once when the id was
\* in the registry and not otherwise, and start() once per device it
\* opened; the listener is called after the handle was opened or released
\* and sees the registry as the event leaves it; when the listener raises,
\* nothing is raised to update(), the event loop goes on, and the registry
\* and the open handles are those a listener that returns would leave.
C28_NotifyOncePerChange ==
    [][/\ (pc = "events" /\ EventStep(trace')
              /\ trace'[1].k # "SDL_CONTROLLERBUTTONDOWN")
            => LET ev == [type |-> trace'[1].k, which |-> trace'[1].a]
                   quiet == update_event(M, ev,
                               [NoInput EXCEPT !.openable =
                                   IF Opened(trace') > 0 THEN {ev.which} ELSE {}])
               IN  /\ ev.type = "SDL_CONTROLLERDEVICEADDED"
                         => Count(trace', "on_status_change") = Opened(trace')
                   /\ ev.type = "SDL_CONTROLLERDEVICEREMOVED"
                         => Count(trace', "on_status_change") =
                               (IF ev.which \in Keys(controllers) THEN 1 ELSE 0)
                   /\ \A i \in DOMAIN trace' :
                         trace'[i].k = "on_status_change"
                           => /\ trace'[i].a = Len(controllers')
                              /\ \E j \in 1..(i - 1) :
                                    trace'[j].k \in {"SDL_GameControllerOpen",
                                                     "SDL_GameControllerClose"}
                              /\ \A j \in (i + 1)..Len(trace') :
                                    trace'[j].k = "suppress"
                   /\ controllers' = quiet.controllers
                   /\ open' = quiet.open
                   /\ exc' = "" /\ pc' = "events"
       /\ op' = "start"
            => /\ Count(trace', "on_status_change") = Opened(trace')
               /\ (Has(trace', "suppress") => exc' = "")]_vars

\* The listener raised when a present device was removed while another
\* controller stays registered; the event loop goes on.
C28_Witness ==
    /\ pc = "events" /\ EventStep(trace)
    /\ trace[1].k = "SDL_CONTROLLERDEVICEREMOVED"
    /\ Has(trace, "on_status_change") /\ Has(trace, "suppress")
    /\ controllers # <<>> /\ exc = ""

\* C29: every handle that was opened and has not been released belongs to
\* a controller of the registry; a device-added event for an instance id the
\* registry already holds leaves no earlier handle open and unreachable.
C29_NoHandleLeak == open \subseteq HandlesOf(controllers)

\* C30: with no sensitivity set on the freshly constructed config, the
\* analog pass hands each sample to an applier and the applier raises
\* nothing (it reads a sensitivity that is defined), so update() returns
\* normally.
C30_SensitivityDefined ==
    (op = "update" /\ attrs = {}) =>
        /\ exc = ""
        /\ AnalogStep(trace) =>
              (Has(trace, "ViewAction.apply") \/ Has(trace, "ModelAction.apply"))
                  /\ ~Has(trace, "raise")

\* C31: an update() on a manager that is not running (before start(), after
\* a start() that failed, after stop()) returns at once: it polls no event,
\* reads no controller, calls no applier and runs no command, and it leaves
\* the flags, the registry, the open handles, the mode and the config as
\* they were. The frame handler stays registered, so these calls keep coming.
C31_NotRunningNoOp ==
    [][(pc = "idle" /\ op' = "update" /\ ~running) =>
          /\ pc' = "done" /\ exc' = ""
          /\ trace' = <<Entry("update", None)>>
          /\ ~EventStep(trace') /\ ~AnalogStep(trace') /\ ~Has(trace', "run")
          /\ UNCHANGED <<running, sdl_initialized, controllers, mode, open,
                         attrs, mappings, failed_cmd>>]_vars

\* The frame handler called update() on a manager that had been put in MODEL
\* mode and is not running.
C31_Witness ==
    /\ pc = "done" /\ op = "update" /\ ~running /\ mode = MODEL
    /\ trace = <<Entry("update", None)>>

\* The handles the opens of a trace returned.
OpenedHandles(tr) ==
    {tr[i].a : i \in {j \in DOMAIN tr :
                         tr[j].k = "SDL_GameControllerOpen" /\ tr[j].a # None}}

\* C32: start() on a manager that is initialized returns at once: SDL_Init is
\* not called, no device is opened, nothing is raised, and the flags, the
\* registry and the open handles are as before. On a manager that is not
\* initialized (after construction, after stop()) start() calls SDL_Init and,
\* when that succeeds, sets both flags and runs discovery: each handle an open
\* returned is open and held by the registry afterwards.
C32_StartIdempotent ==
    [][op' = "start" =>
          IF sdl_initialized
          THEN /\ trace' = <<Entry("start", None)>>
               /\ exc' = "" /\ pc' = "done"
               /\ UNCHANGED <<running, sdl_initialized, controllers, open, mode,
                              attrs, mappings>>
          ELSE /\ Count(trace', "SDL_Init") = 1
               /\ ~InitFailed(trace') =>
                     /\ trace'[2] = Entry("SDL_Init", 0)
                     /\ running' /\ sdl_initialized'
                     /\ open' = open \cup OpenedHandles(trace')
                     /\ OpenedHandles(trace') \subseteq HandlesOf(controllers')]_vars

\* start() was called on a started manager that holds a controller.
C32_Witness ==
    /\ pc = "done" /\ op = "start" /\ trace = <<Entry("start", None)>>
    /\ running /\ sdl_initialized /\ controllers # <<>>

\* C33: whenever the manager is not running, the registry is empty and no
\* handle is open, after any sequence of start, stop and update calls, an
\* update() in which a bound command stopped the manager while device-added
\* events were still pending included.
C33_StoppedHoldsNothing == ~running => (controllers = <<>> /\ open = {})

\* C34: a snapshot shares no mutable state with the live store: the dict
\* to_dict() returned holds what it held when it was returned, and the dict
\* from_dict() was given holds what it held when it was given, whatever is
\* done to the store afterwards.
C34_SnapshotIsolated ==
    /\ snapshot # <<>> => Deep(snapshot, heap) = snapshot_was
    /\ restored # <<>> => Deep(restored, heap) = restored_was

ViewCalls == {"view.rotate", "view.translate"}

\* C35: the two modes act on disjoint targets. An apply() of VIEW mode
\* changes no model (parent or position) and makes no call on a model; an
\* apply() of MODEL mode leaves the camera (projection, field width, redraw
\* flag) and the view's pose as they were and makes no call on the view; for
\* every input sample and every selection.
C35_DisjointTargets ==
    [][/\ Applied("ViewAction.apply") =>
             /\ models' = models
             /\ \A i \in DOMAIN scene_calls' : scene_calls'[i].k \in ViewCalls
       /\ Applied("ModelAction.apply") =>
             /\ camera' = camera /\ view_pose' = view_pose
             /\ \A i \in DOMAIN scene_calls' : scene_calls'[i].k \notin ViewCalls]_vars

\* After an apply() of VIEW mode moved the view, an apply() of MODEL mode
\* moved a selected model and the view is where VIEW mode left it.
C35_Witness ==
    /\ applies = 2 /\ apply_op = "ModelAction.apply" /\ apply_exc = ""
    /\ Has(scene_calls, "model.position") /\ models # SceneModels
    /\ view_pose = 1

====
